---------------------------- MODULE Spec2Model ----------------------------
(***************************************************************************)
(* A model of docusaurus-plugin-llms: the postBuild hook, the helpers of   *)
(* the generator (category / subdirectory extraction, label formatting,    *)
(* document sorting) and generateLLMFile in its links mode and its         *)
(* full-content mode.                                                      *)
(*                                                                         *)
(* A JavaScript string is a sequence of one-character strings, so that     *)
(* split, replace, charAt, slice and join are computed character by        *)
(* character as the code computes them.  null is the value NULL, which is  *)
(* no string.                                                              *)
(***************************************************************************)
EXTENDS Integers, Sequences, FiniteSets, TLC

VARIABLES
    \* one call of a pure helper: its name, its argument, its result
    fnName, fnInput, fnOutput,
    \* generateLLMFile: its arguments and the descriptor files on disk
    docs, files, includeDescriptionInLinks,
    \* generateLLMFile: where the call stands, and its locals
    pc, docsByCategory, pendingCategories, categoryMetadataMap,
    sortedCategories, sectionTasks, llmsTxt,
    \* generateLLMFile in full-content mode: its locals and the text written
    usedHeaders, fullContentSections, llmsFullTxt,
    \* the plugin: its context and options, and one call of postBuild
    siteConfig, outDir, options, fileTree, props, currentLocale, buildPc,
    allDocFiles, outputFiles,
    \* generateIndividualMarkdownFiles: its locals and the files written
    usedPaths, updatedDocs, writtenFiles,
    \* the same call for a custom file, and every file written to outDir
    customInput, customUsedPaths, customUpdatedDocs, fileWrites

fnVars == <<fnName, fnInput, fnOutput>>

genInputs == <<docs, files, includeDescriptionInLinks>>

linksVars == <<pc, docsByCategory, pendingCategories, categoryMetadataMap,
               sortedCategories, sectionTasks, llmsTxt>>

fullVars == <<usedHeaders, fullContentSections, llmsFullTxt>>

linksData == <<docsByCategory, pendingCategories, categoryMetadataMap,
               sortedCategories, sectionTasks, llmsTxt>>

pluginContext == <<siteConfig, outDir, options, fileTree>>

buildVars == <<pluginContext, props, currentLocale, buildPc, allDocFiles, outputFiles>>

standardRun == <<usedPaths, updatedDocs, writtenFiles>>

customRun == <<customInput, customUsedPaths, customUpdatedDocs>>

fileVars == <<standardRun, customRun, fileWrites>>

vars == <<fnVars, genInputs, linksVars, fullVars, buildVars, fileVars>>

(***************************************************************************)
(* Strings                                                                 *)
(***************************************************************************)
NULL == <<"null">>

S_docs == <<"d", "o", "c", "s">>
S_sdk == <<"s", "d", "k">>
S_access == <<"a", "c", "c", "e", "s", "s">>
S_x == <<"x">>
S_y == <<"y">>
S_z == <<"z">>
S_a == <<"a">>
S_pc == <<"p", "c">>
S_cpp_sdk == <<"c", "p", "p", "-", "s", "d", "k">>
S_other == <<"o", "t", "h", "e", "r">>
S_start == <<"s", "t", "a", "r", "t">>
S_release_notes == <<"r", "e", "l", "e", "a", "s", "e", "-", "n", "o", "t", "e", "s">>
S_unity == <<"u", "n", "i", "t", "y">>
S_agreement == <<"a", "g", "r", "e", "e", "m", "e", "n", "t">>
S_getting_started == <<"g", "e", "t", "t", "i", "n", "g", "-", "s", "t", "a", "r", "t", "e", "d">>
S_anti_addiction == <<"a", "n", "t", "i", "-", "a", "d", "d", "i", "c", "t", "i", "o", "n">>
S_Getting_Started == <<"G", "e", "t", "t", "i", "n", "g", " ", "S", "t", "a", "r", "t", "e", "d">>
S_Anti_Addiction == <<"A", "n", "t", "i", " ", "A", "d", "d", "i", "c", "t", "i", "o", "n">>
S_cat1 == <<"c", "a", "t", "1">>
S_cat2 == <<"c", "a", "t", "2">>
S_md == <<".", "m", "d">>
S_mdx == <<".", "m", "d", "x">>

LowerCaseLetters ==
    <<"a", "b", "c", "d", "e", "f", "g", "h", "i", "j", "k", "l", "m",
      "n", "o", "p", "q", "r", "s", "t", "u", "v", "w", "x", "y", "z">>

UpperCaseLetters ==
    <<"A", "B", "C", "D", "E", "F", "G", "H", "I", "J", "K", "L", "M",
      "N", "O", "P", "Q", "R", "S", "T", "U", "V", "W", "X", "Y", "Z">>

\* String.prototype.toUpperCase on one character
toUpperCase(c) ==
    IF \E i \in 1..26 : LowerCaseLetters[i] = c
    THEN UpperCaseLetters[CHOOSE i \in 1..26 : LowerCaseLetters[i] = c]
    ELSE c

\* String.prototype.toLowerCase on one character
toLowerCase(c) ==
    IF \E i \in 1..26 : UpperCaseLetters[i] = c
    THEN LowerCaseLetters[CHOOSE i \in 1..26 : UpperCaseLetters[i] = c]
    ELSE c

\* s.split(sep) for a one-character separator: ''.split('/') is ['']
RECURSIVE split(_, _)
split(s, sep) ==
    IF \A i \in 1..Len(s) : s[i] # sep
    THEN <<s>>
    ELSE LET i == CHOOSE i \in 1..Len(s) :
                      s[i] = sep /\ \A j \in 1..(i - 1) : s[j] # sep
         IN  <<SubSeq(s, 1, i - 1)>> \o split(SubSeq(s, i + 1, Len(s)), sep)

\* parts.join(sep) for a string separator
RECURSIVE join(_, _)
join(parts, sep) ==
    IF Len(parts) = 0 THEN <<>>
    ELSE IF Len(parts) = 1 THEN parts[1]
    ELSE parts[1] \o sep \o join(Tail(parts), sep)

\* s.replace(/^\/+/, '')
RECURSIVE stripLeadingSlashes(_)
stripLeadingSlashes(s) ==
    IF Len(s) > 0 /\ s[1] = "/" THEN stripLeadingSlashes(Tail(s)) ELSE s

\* s.replace(/\/+$/, '')
RECURSIVE stripTrailingSlashes(_)
stripTrailingSlashes(s) ==
    IF Len(s) > 0 /\ s[Len(s)] = "/"
    THEN stripTrailingSlashes(SubSeq(s, 1, Len(s) - 1))
    ELSE s

\* s.replace(/^\/+|\/+$/g, '')
stripSlashes(s) == stripTrailingSlashes(stripLeadingSlashes(s))

endsWith(s, suffix) ==
    /\ Len(s) >= Len(suffix)
    /\ SubSeq(s, Len(s) - Len(suffix) + 1, Len(s)) = suffix

\* s.replace(/\.mdx?$/, '')
stripMdExtension(s) ==
    IF endsWith(s, S_mdx) THEN SubSeq(s, 1, Len(s) - 4)
    ELSE IF endsWith(s, S_md) THEN SubSeq(s, 1, Len(s) - 3)
    ELSE s

(***************************************************************************)
(* Helpers of the generator                                                *)
(***************************************************************************)
extractCategoryFromPath_NoThird(docPath) ==
    LET parts == split(stripSlashes(docPath), "/")
    IN  IF Len(parts) >= 2 THEN parts[2] ELSE S_other

extractCategoryFromPath_FourParts(docPath) ==
    LET parts == split(stripSlashes(docPath), "/")
    IN  IF Len(parts) > 3 THEN parts[3]
        ELSE IF Len(parts) >= 2 THEN parts[2]
        ELSE S_other

extractCategoryFromPath(docPath) ==
    LET parts == split(stripSlashes(docPath), "/")
    IN  IF Len(parts) >= 3 THEN parts[3]
        ELSE IF Len(parts) >= 2 THEN parts[2]
        ELSE S_other

extractSubdirectoryFromPath_NoDocsDirTest(docPath, docsDir) ==
    LET parts == split(stripMdExtension(stripSlashes(docPath)), "/")
    IN  IF Len(parts) >= 5 THEN parts[4] ELSE NULL

extractSubdirectoryFromPath(docPath, docsDir) ==
    LET parts == split(stripMdExtension(stripSlashes(docPath)), "/")
    IN  IF Len(parts) >= 5 /\ parts[1] = docsDir THEN parts[4] ELSE NULL

\* word.charAt(0).toUpperCase() + word.slice(1)
capitalize(word) ==
    IF Len(word) = 0 THEN word ELSE <<toUpperCase(word[1])>> \o Tail(word)

formatCategoryName(category) ==
    LET words == split(category, "-")
    IN  join([i \in 1..Len(words) |-> capitalize(words[i])], <<" ">>)

(***************************************************************************)
(* String.prototype.localeCompare under the root collation: strings are    *)
(* compared by the primary weights of their characters (punctuation before *)
(* digits before letters, case ignored), a proper prefix first; strings    *)
(* with equal primary weights are ordered by case, lower case first.       *)
(***************************************************************************)
CollationOrder ==
    <<" ", "_", "-", ".", "(", ")", "/", "#",
      "0", "1", "2", "3", "4", "5", "6", "7", "8", "9">> \o LowerCaseLetters

primaryWeight(c) ==
    LET l == toLowerCase(c)
    IN  IF \E i \in 1..Len(CollationOrder) : CollationOrder[i] = l
        THEN CHOOSE i \in 1..Len(CollationOrder) : CollationOrder[i] = l
        ELSE 0

RECURSIVE comparePrimary(_, _)
comparePrimary(a, b) ==
    IF Len(a) = 0 /\ Len(b) = 0 THEN 0
    ELSE IF Len(a) = 0 THEN -1
    ELSE IF Len(b) = 0 THEN 1
    ELSE IF primaryWeight(a[1]) < primaryWeight(b[1]) THEN -1
    ELSE IF primaryWeight(a[1]) > primaryWeight(b[1]) THEN 1
    ELSE comparePrimary(Tail(a), Tail(b))

RECURSIVE compareCase(_, _)
compareCase(a, b) ==
    IF Len(a) = 0 \/ Len(b) = 0 THEN 0
    ELSE IF a[1] = b[1] THEN compareCase(Tail(a), Tail(b))
    ELSE IF a[1] = toLowerCase(a[1]) THEN -1
    ELSE 1

localeCompare(a, b) ==
    IF comparePrimary(a, b) # 0 THEN comparePrimary(a, b) ELSE compareCase(a, b)

(***************************************************************************)
(* Array.prototype.sort(compare) as the runtime sorts an array of fewer    *)
(* than 64 elements: the leading run is found (and reversed when strictly  *)
(* descending), then every later element is placed by binary insertion.    *)
(* compare is a function on pairs of elements.                             *)
(***************************************************************************)
reverse(arr) == [i \in 1..Len(arr) |-> arr[Len(arr) + 1 - i]]

RECURSIVE runLength(_, _, _, _)
runLength(arr, compare, isDescending, idx) ==
    IF idx > Len(arr) THEN idx - 1
    ELSE LET order == compare[<<arr[idx], arr[idx - 1]>>]
         IN  IF (isDescending /\ order >= 0) \/ (~isDescending /\ order < 0)
             THEN idx - 1
             ELSE runLength(arr, compare, isDescending, idx + 1)

RECURSIVE insertionPoint(_, _, _, _, _)
insertionPoint(arr, compare, pivot, left, right) ==
    IF left >= right THEN left
    ELSE LET mid == left + ((right - left) \div 2)
         IN  IF compare[<<pivot, arr[mid]>>] < 0
             THEN insertionPoint(arr, compare, pivot, left, mid)
             ELSE insertionPoint(arr, compare, pivot, mid + 1, right)

RECURSIVE binaryInsertionSort(_, _, _)
binaryInsertionSort(arr, compare, start) ==
    IF start > Len(arr) THEN arr
    ELSE LET pivot == arr[start]
             pos == insertionPoint(arr, compare, pivot, 1, start)
             placed == SubSeq(arr, 1, pos - 1) \o <<pivot>>
                         \o SubSeq(arr, pos, start - 1)
                         \o SubSeq(arr, start + 1, Len(arr))
         IN  binaryInsertionSort(placed, compare, start + 1)

arraySort(arr, compare) ==
    IF Len(arr) < 2 THEN arr
    ELSE LET isDescending == compare[<<arr[2], arr[1]>>] < 0
             run == runLength(arr, compare, isDescending, 3)
             made == IF isDescending
                     THEN reverse(SubSeq(arr, 1, run)) \o SubSeq(arr, run + 1, Len(arr))
                     ELSE arr
         IN  binaryInsertionSort(made, compare, run + 1)

Range(seq) == {seq[i] : i \in 1..Len(seq)}

(***************************************************************************)
(* sortDocsByPosition                                                      *)
(***************************************************************************)
DefaultPosition == 999

\* doc.frontMatter?.sidebar_position ?? 999
sidebarPosition(doc) ==
    IF "sidebar_position" \in DOMAIN doc.frontMatter
    THEN doc.frontMatter["sidebar_position"]
    ELSE DefaultPosition

compareDocs_PathOnly(a, b) == localeCompare(a.path, b.path)

compareDocs(a, b) ==
    IF sidebarPosition(a) # sidebarPosition(b)
    THEN sidebarPosition(a) - sidebarPosition(b)
    ELSE localeCompare(a.path, b.path)

sortDocsByPosition(docList) ==
    arraySort(docList, [p \in Range(docList) \X Range(docList) |-> compareDocs(p[1], p[2])])

(***************************************************************************)
(* Descriptors (_category_.json).  A file is missing, is not valid JSON,   *)
(* or holds an object with some of the keys position and label.  A         *)
(* directory is named by its path below the site directory.                *)
(***************************************************************************)
S_Lbl == <<"L", "b", "l">>

fileMissing == [kind |-> "missing", data |-> [k \in {} |-> 0]]
fileInvalid == [kind |-> "invalid", data |-> [k \in {} |-> 0]]
fileJson(data) == [kind |-> "json", data |-> data]

defaultMetadata == [position |-> DefaultPosition, label |-> NULL]

\* the null a failed read gives in place of a CategoryMetadata
nullMetadata == [null |-> TRUE]

\* fs.readFile rejects for a missing file and JSON.parse throws on an invalid
\* one: both are caught and give null
readCategoryMetadata(fileSystem, categoryPath) ==
    LET file == IF categoryPath \in DOMAIN fileSystem
                THEN fileSystem[categoryPath] ELSE fileMissing
    IN  IF file.kind # "json" THEN nullMetadata
        ELSE [position |-> IF "position" \in DOMAIN file.data
                           THEN file.data["position"] ELSE DefaultPosition,
              label |-> IF "label" \in DOMAIN file.data /\ file.data["label"] # <<>>
                        THEN file.data["label"] ELSE NULL]

getCategoryMetadata(fileSystem, docPath, docsDir) ==
    LET pathParts == split(stripMdExtension(stripSlashes(docPath)), "/")
        categoryDir == IF Len(pathParts) >= 3
                       THEN join(SubSeq(pathParts, 1, 3), <<"/">>)
                       ELSE join(SubSeq(pathParts, 1, 2), <<"/">>)
    IN  IF Len(pathParts) >= 2 /\ pathParts[1] = docsDir
        THEN LET metadata == readCategoryMetadata(fileSystem, categoryDir)
             IN  IF metadata = nullMetadata THEN defaultMetadata ELSE metadata
        ELSE defaultMetadata

(***************************************************************************)
(* A Map is the sequence of its entries in insertion order.                *)
(***************************************************************************)
mapKeys(map) == [i \in 1..Len(map) |-> map[i].key]
mapHas(map, key) == \E i \in 1..Len(map) : map[i].key = key
mapGet(map, key) == map[CHOOSE i \in 1..Len(map) : map[i].key = key].value

\* the list of a key is begun anew with every document
mapPush_Overwrite(map, key, doc) ==
    IF mapHas(map, key)
    THEN [i \in 1..Len(map) |->
             IF map[i].key = key THEN [key |-> key, value |-> <<doc>>] ELSE map[i]]
    ELSE Append(map, [key |-> key, value |-> <<doc>>])

\* if (!map.has(key)) map.set(key, []); map.get(key).push(doc)
mapPush(map, key, doc) ==
    IF mapHas(map, key)
    THEN [i \in 1..Len(map) |->
             IF map[i].key = key
             THEN [key |-> key, value |-> Append(map[i].value, doc)]
             ELSE map[i]]
    ELSE Append(map, [key |-> key, value |-> <<doc>>])

RECURSIVE groupByCategory(_, _)
groupByCategory(map, docList) ==
    IF Len(docList) = 0 THEN map
    ELSE groupByCategory(mapPush(map, extractCategoryFromPath(docList[1].path), docList[1]),
                         Tail(docList))

RECURSIVE groupBySubdirectory(_, _, _)
groupBySubdirectory(map, docList, docsDir) ==
    IF Len(docList) = 0 THEN map
    ELSE groupBySubdirectory(
             mapPush(map, extractSubdirectoryFromPath(docList[1].path, docsDir), docList[1]),
             Tail(docList), docsDir)

\* subdirPathMap: the directory of the first document seen in each subdirectory
subdirPath(categoryDocs, subdir, docsDir) ==
    LET i == CHOOSE i \in 1..Len(categoryDocs) :
                 /\ extractSubdirectoryFromPath(categoryDocs[i].path, docsDir) = subdir
                 /\ \A j \in 1..(i - 1) :
                        extractSubdirectoryFromPath(categoryDocs[j].path, docsDir) # subdir
        pathParts == split(stripMdExtension(stripSlashes(categoryDocs[i].path)), "/")
    IN  join(SubSeq(pathParts, 1, 4), <<"/">>)

\* the keys of subdirPathMap: the subdirectories a descriptor is read for
subdirsToRead(categoryDocs, docsDir) ==
    { extractSubdirectoryFromPath(categoryDocs[i].path, docsDir) : i \in 1..Len(categoryDocs) }
        \ {NULL, <<>>}

(***************************************************************************)
(* Links mode of generateLLMFile                                           *)
(***************************************************************************)
compareCategories_KeyOnly(a, b, metadataMap) == localeCompare(a, b)

compareCategories(a, b, metadataMap) ==
    IF /\ a \in DOMAIN metadataMap
       /\ b \in DOMAIN metadataMap
       /\ metadataMap[a].position # metadataMap[b].position
    THEN metadataMap[a].position - metadataMap[b].position
    ELSE localeCompare(a, b)

sortCategories(keys, metadataMap) ==
    arraySort(keys, [p \in Range(keys) \X Range(keys) |->
                        compareCategories(p[1], p[2], metadataMap)])

\* the comparator of subdirs.sort: positions are compared only when both
\* subdirectories have an entry in subdirMetadataMap
compareSubdirs(a, b, subdirMetadataMap) ==
    IF /\ a \in DOMAIN subdirMetadataMap
       /\ b \in DOMAIN subdirMetadataMap
       /\ subdirMetadataMap[a].position # subdirMetadataMap[b].position
    THEN subdirMetadataMap[a].position - subdirMetadataMap[b].position
    ELSE localeCompare(a, b)

sortSubdirs(subdirs, subdirMetadataMap) ==
    arraySort(subdirs, [p \in Range(subdirs) \X Range(subdirs) |->
                           compareSubdirs(p[1], p[2], subdirMetadataMap)])

\* description.split('\n')[0]
firstLineOf(text) == split(text, "\n")[1]

isWhitespace(c) == c \in {" ", "\t"}

RECURSIVE dropWhile(_, _)
dropWhile(s, chars) ==
    IF Len(s) > 0 /\ s[1] \in chars THEN dropWhile(Tail(s), chars) ELSE s

\* firstLine.replace(/^(#+)\s+/g, '')
stripHeadingMarker(line) ==
    LET afterHashes == dropWhile(line, {"#"})
    IN  IF /\ Len(afterHashes) < Len(line)
           /\ Len(afterHashes) > 0
           /\ isWhitespace(afterHashes[1])
        THEN dropWhile(afterHashes, {" ", "\t"})
        ELSE line

MaxDescriptionLength == 150
TruncatedLength == 147

\* the cleaned line is returned whatever its length
cleanDescriptionForToc_NoTruncation(description) ==
    IF description = <<>> THEN <<>>
    ELSE stripHeadingMarker(firstLineOf(description))

cleanDescriptionForToc(description) ==
    IF description = <<>> THEN <<>>
    ELSE LET cleaned == stripHeadingMarker(firstLineOf(description))
         IN  IF Len(cleaned) > MaxDescriptionLength
             THEN SubSeq(cleaned, 1, TruncatedLength) \o <<".", ".", ".">>
             ELSE cleaned

\* the description is appended whatever includeDescription says
generateLinkItem_AlwaysDescription(doc, includeDescription) ==
    LET link == <<"-", " ", "[">> \o doc.title \o <<"]", "(">> \o doc.url \o <<")">>
    IN  IF cleanDescriptionForToc(doc.description) # <<>>
        THEN link \o <<":", " ">> \o cleanDescriptionForToc(doc.description)
        ELSE link

generateLinkItem(doc, includeDescription) ==
    LET link == <<"-", " ", "[">> \o doc.title \o <<"]", "(">> \o doc.url \o <<")">>
    IN  IF includeDescription /\ cleanDescriptionForToc(doc.description) # <<>>
        THEN link \o <<":", " ">> \o cleanDescriptionForToc(doc.description)
        ELSE link

\* metadata?.label || formatCategoryName(key)
headingTitle_AlwaysFormatted(metadataMap, key) == formatCategoryName(key)

headingTitle(metadataMap, key) ==
    IF key \in DOMAIN metadataMap /\ metadataMap[key].label # NULL
    THEN metadataMap[key].label
    ELSE formatCategoryName(key)

linkItems(docList, includeDescription) ==
    LET sorted == sortDocsByPosition(docList)
    IN  [i \in 1..Len(sorted) |-> generateLinkItem(sorted[i], includeDescription)]

\* items.join('\n') is the sequence of the lines; sections.join('\n\n') puts
\* one empty line between two sections
RECURSIVE joinSections(_)
joinSections(sections) ==
    IF Len(sections) = 0 THEN << <<>> >>
    ELSE IF Len(sections) = 1 THEN sections[1]
    ELSE sections[1] \o << <<>> >> \o joinSections(Tail(sections))

subdirSection(subdir, subdirDocs, subdirMetadataMap, includeDescription) ==
    << <<"#", "#", "#", " ">> \o headingTitle(subdirMetadataMap, subdir), <<>> >>
        \o linkItems(subdirDocs, includeDescription)

subdirsBeforeRoot(rootSections, subdirSections) == subdirSections \o rootSections

\* sections: the root items are pushed first, then one entry per subdirectory
subdirsAfterRoot(rootSections, subdirSections) == rootSections \o subdirSections

\* the text of one category section, built once its descriptor reads are done
categorySection(category, categoryDocs, categoryMetadata, subdirMetadataMap, docsDir, includeDescription) ==
    LET docsBySubdir == groupBySubdirectory(<<>>, categoryDocs, docsDir)
        rootSections == IF mapHas(docsBySubdir, NULL)
                        THEN << linkItems(mapGet(docsBySubdir, NULL), includeDescription) >>
                        ELSE <<>>
        subdirs == sortSubdirs(SelectSeq(mapKeys(docsBySubdir), LAMBDA k : k # NULL),
                               subdirMetadataMap)
        subdirSections == [i \in 1..Len(subdirs) |->
                              subdirSection(subdirs[i], mapGet(docsBySubdir, subdirs[i]),
                                            subdirMetadataMap, includeDescription)]
    IN  << <<"#", "#", " ">> \o headingTitle(categoryMetadata, category), <<>> >>
            \o joinSections(subdirsAfterRoot(rootSections, subdirSections))

(***************************************************************************)
(* generateLLMFile(docs, ..., includeFullContent = false, ..., siteDir,    *)
(* docsDir, includeDescriptionInLinks) as the plugin calls it: siteDir and *)
(* docsDir are given, docsDir is 'docs'.  One action is the code between   *)
(* two awaits; descriptor reads complete in any order.                     *)
(***************************************************************************)
idleLinks ==
    /\ pc = "idle"
    /\ docsByCategory = <<>>
    /\ pendingCategories = {}
    /\ categoryMetadataMap = [c \in {} |-> defaultMetadata]
    /\ sortedCategories = <<>>
    /\ sectionTasks = [c \in {} |-> 0]
    /\ llmsTxt = NULL

idleFull ==
    /\ usedHeaders = {}
    /\ fullContentSections = <<>>
    /\ llmsFullTxt = NULL

idleFiles ==
    /\ usedPaths = {}
    /\ updatedDocs = <<>>
    /\ writtenFiles = <<>>
    /\ customInput = <<>>
    /\ customUsedPaths = {}
    /\ customUpdatedDocs = <<>>
    /\ fileWrites = <<>>

undefined == <<"undefined">>

\* an object without properties
emptyObject == [k \in {} |-> undefined]

idleBuild ==
    /\ siteConfig = emptyObject
    /\ outDir = <<>>
    /\ options = emptyObject
    /\ fileTree = emptyObject
    /\ props = emptyObject
    /\ currentLocale = undefined
    /\ buildPc = "idle"
    /\ allDocFiles = undefined
    /\ outputFiles = {}

\* lines 270-291: group by category, then issue one descriptor read per category
GroupByCategory ==
    /\ pc = "start"
    /\ docsByCategory' = groupByCategory(<<>>, docs)
    /\ pendingCategories' = Range(mapKeys(docsByCategory'))
    /\ pc' = "readingCategories"
    /\ UNCHANGED <<categoryMetadataMap, sortedCategories, sectionTasks, llmsTxt>>
    /\ UNCHANGED <<fnVars, genInputs, fullVars, buildVars, fileVars>>

\* lines 285-290: one read completes and its result is merged into the table
CompleteCategoryRead(category) ==
    /\ pc = "readingCategories"
    /\ category \in pendingCategories
    /\ LET sampleDoc == mapGet(docsByCategory, category)[1]
           metadata == getCategoryMetadata(files, sampleDoc.path, S_docs)
       IN  categoryMetadataMap' = (category :> metadata) @@ categoryMetadataMap
    /\ pendingCategories' = pendingCategories \ {category}
    /\ UNCHANGED <<pc, docsByCategory, sortedCategories, sectionTasks, llmsTxt>>
    /\ UNCHANGED <<fnVars, genInputs, fullVars, buildVars, fileVars>>

\* lines 308-343 for one category, up to its first await: a category with
\* subdirectories waits for their descriptors, any other builds its section
startSection(category) ==
    LET categoryDocs == mapGet(docsByCategory, category)
        toRead == subdirsToRead(categoryDocs, S_docs)
        noMetadata == [sd \in {} |-> defaultMetadata]
    IN  IF toRead = {}
        THEN [state |-> "done", pending |-> {}, subdirMetadataMap |-> noMetadata,
              section |-> categorySection(category, categoryDocs, categoryMetadataMap,
                                          noMetadata, S_docs, includeDescriptionInLinks)]
        ELSE [state |-> "reading", pending |-> toRead, subdirMetadataMap |-> noMetadata,
              section |-> <<>>]

\* the sort does not wait for the category reads still under way
SortCategories_Early ==
    /\ pc = "readingCategories"
    /\ sortedCategories' = sortCategories(mapKeys(docsByCategory), categoryMetadataMap)
    /\ sectionTasks' = [c \in Range(mapKeys(docsByCategory)) |-> startSection(c)]
    /\ pc' = "sections"
    /\ UNCHANGED <<docsByCategory, pendingCategories, categoryMetadataMap, llmsTxt>>
    /\ UNCHANGED <<fnVars, genInputs, fullVars, buildVars, fileVars>>

\* lines 291-308: every category read is done; sort, then start every section
SortCategories ==
    /\ pc = "readingCategories"
    /\ pendingCategories = {}
    /\ sortedCategories' = sortCategories(mapKeys(docsByCategory), categoryMetadataMap)
    /\ sectionTasks' = [c \in Range(mapKeys(docsByCategory)) |-> startSection(c)]
    /\ pc' = "sections"
    /\ UNCHANGED <<docsByCategory, pendingCategories, categoryMetadataMap, llmsTxt>>
    /\ UNCHANGED <<fnVars, genInputs, fullVars, buildVars, fileVars>>

\* lines 336-341: one subdirectory read completes; only a descriptor that
\* was read is entered into subdirMetadataMap
CompleteSubdirRead(category, subdir) ==
    /\ pc = "sections"
    /\ category \in DOMAIN sectionTasks
    /\ sectionTasks[category].state = "reading"
    /\ subdir \in sectionTasks[category].pending
    /\ LET task == sectionTasks[category]
           metadata == readCategoryMetadata(
                           files, subdirPath(mapGet(docsByCategory, category), subdir, S_docs))
       IN  sectionTasks' =
               [sectionTasks EXCEPT ![category] =
                   [task EXCEPT !.pending = task.pending \ {subdir},
                                !.subdirMetadataMap =
                                    IF metadata = nullMetadata THEN task.subdirMetadataMap
                                    ELSE (subdir :> metadata) @@ task.subdirMetadataMap]]
    /\ UNCHANGED <<pc, docsByCategory, pendingCategories, categoryMetadataMap,
                   sortedCategories, llmsTxt>>
    /\ UNCHANGED <<fnVars, genInputs, fullVars, buildVars, fileVars>>

\* lines 345-387: the subdirectory reads of a category are done; build its section
BuildSection(category) ==
    /\ pc = "sections"
    /\ category \in DOMAIN sectionTasks
    /\ sectionTasks[category].state = "reading"
    /\ sectionTasks[category].pending = {}
    /\ LET task == sectionTasks[category]
       IN  sectionTasks' =
               [sectionTasks EXCEPT ![category] =
                   [task EXCEPT !.state = "done",
                                !.section = categorySection(
                                                category, mapGet(docsByCategory, category),
                                                categoryMetadataMap, task.subdirMetadataMap,
                                                S_docs, includeDescriptionInLinks)]]
    /\ UNCHANGED <<pc, docsByCategory, pendingCategories, categoryMetadataMap,
                   sortedCategories, llmsTxt>>
    /\ UNCHANGED <<fnVars, genInputs, fullVars, buildVars, fileVars>>

\* lines 390-402: every section is built; they are joined in the sorted order
WriteLinksFile ==
    /\ pc = "sections"
    /\ \A c \in DOMAIN sectionTasks : sectionTasks[c].state = "done"
    /\ llmsTxt' = joinSections([i \in 1..Len(sortedCategories) |->
                                   sectionTasks[sortedCategories[i]].section])
    /\ pc' = "done"
    /\ UNCHANGED <<docsByCategory, pendingCategories, categoryMetadataMap,
                   sortedCategories, sectionTasks>>
    /\ UNCHANGED <<fnVars, genInputs, fullVars, buildVars, fileVars>>

(***************************************************************************)
(* The documents and descriptor files generateLLMFile is run on.  Every    *)
(* document records the segments its path was made of (segments is no      *)
(* field of DocInfo and no definition of the program reads it).            *)
(***************************************************************************)
MaxDocs == 3

S_blog == <<"b", "l", "o", "g">>
S_cat0 == <<"c", "a", "t", "0">>

document(segments, extension, title, frontMatter, description) ==
    [ path |-> <<"/">> \o join(segments, <<"/">>) \o extension,
      title |-> title,
      url |-> <<"u", "/">> \o toLowerCase(title[1]) \o <<>>,
      description |-> description,
      frontMatter |-> frontMatter,
      segments |-> segments ]

noFrontMatter == [k \in {} |-> 0]
position(n) == [k \in {"sidebar_position"} |-> n]

docX == document(<<S_docs, S_a, S_cat1, S_x>>, <<>>, <<"X">>, position(2), <<>>)
docY == document(<<S_docs, S_a, S_cat1, S_y>>, <<>>, <<"Y">>, position(1),
                 <<"#", " ", "d", "\n", "e">>)
docZ == document(<<S_docs, S_a, S_cat2, S_z>>, <<>>, <<"Z">>, noFrontMatter, <<>>)
docG == document(<<S_docs, S_a, S_cat1, S_getting_started, S_x>>, S_md, <<"G">>,
                 noFrontMatter, <<>>)
docA == document(<<S_docs, S_a, S_cat1, S_anti_addiction, S_y>>, <<>>, <<"A">>,
                 position(1), <<>>)
docW == document(<<S_blog, S_a, S_cat2, <<"w">> >>, <<>>, <<"W">>, noFrontMatter, <<>>)
docV == document(<<S_docs, S_a, S_cat0, <<"v">> >>, <<>>, <<"V">>, noFrontMatter, <<>>)

DocPool == {docX, docY, docZ, docG, docA, docW, docV}

DocLists ==
    { ds \in UNION {[1..n -> DocPool] : n \in 0..MaxDocs} :
        \A i, j \in 1..Len(ds) : i # j => ds[i] # ds[j] }

dirOf(segments, n) == join(SubSeq(segments, 1, n), <<"/">>)

\* the directories of the docs tree a descriptor may lie in
descriptorDirs(docList) ==
    { dirOf(docList[i].segments, 3) :
        i \in {k \in 1..Len(docList) : docList[k].segments[1] = S_docs} }
    \cup
    { dirOf(docList[i].segments, 4) :
        i \in {k \in 1..Len(docList) :
                  docList[k].segments[1] = S_docs /\ Len(docList[k].segments) >= 5} }

\* what the descriptor file of a category directory may be
CategoryFiles ==
    { fileMissing,
      fileJson([k \in {"position", "label"} |-> IF k = "position" THEN 1 ELSE S_Lbl]),
      fileJson([k \in {"position", "label"} |-> IF k = "position" THEN 2 ELSE <<>>]) }

\* what the descriptor file of a subdirectory may be
SubdirFiles ==
    { fileInvalid,
      fileJson([k \in {"position", "label"} |-> IF k = "position" THEN 1 ELSE S_Lbl]),
      fileJson([k \in {"label"} |-> <<>>]) }

FileSystems(docList) ==
    { fs \in [descriptorDirs(docList) -> CategoryFiles \cup SubdirFiles] :
        \A dir \in DOMAIN fs :
            fs[dir] \in IF Len(split(dir, "/")) = 3 THEN CategoryFiles ELSE SubdirFiles }

\* the end-to-end scenario: cat1 -> {position: 1}, cat2 -> {position: 0}
scenarioDocs == <<docX, docY, docZ>>
scenarioFiles ==
    (dirOf(docX.segments, 3) :> fileJson([k \in {"position"} |-> 1]))
    @@ (dirOf(docZ.segments, 3) :> fileJson([k \in {"position"} |-> 0]))

LinksInit ==
    /\ fnName = "none"
    /\ fnInput = NULL
    /\ fnOutput = NULL
    /\ \/ /\ docs \in DocLists
          /\ files \in FileSystems(docs)
       \/ /\ docs = scenarioDocs
          /\ files = scenarioFiles
    /\ includeDescriptionInLinks \in BOOLEAN
    /\ pc = "start"
    /\ docsByCategory = <<>>
    /\ pendingCategories = {}
    /\ categoryMetadataMap = [c \in {} |-> defaultMetadata]
    /\ sortedCategories = <<>>
    /\ sectionTasks = [c \in {} |-> 0]
    /\ llmsTxt = NULL
    /\ idleFull
    /\ idleBuild
    /\ idleFiles

LinksNext ==
    \/ GroupByCategory
    \/ \E category \in pendingCategories : CompleteCategoryRead(category)
    \/ SortCategories
    \/ \E category \in DOMAIN sectionTasks :
           \E subdir \in sectionTasks[category].pending :
               CompleteSubdirRead(category, subdir)
    \/ \E category \in DOMAIN sectionTasks : BuildSection(category)
    \/ WriteLinksFile

SpecLinks == LinksInit /\ [][LinksNext]_vars

(***************************************************************************)
(* Full-content mode of generateLLMFile                                    *)
(***************************************************************************)
Digits == <<"0", "1", "2", "3", "4", "5", "6", "7", "8", "9">>

\* `${counter}`
RECURSIVE numberToString(_)
numberToString(n) ==
    IF n < 10 THEN <<Digits[n + 1]>>
    ELSE numberToString(n \div 10) \o <<Digits[(n % 10) + 1]>>

Whitespace == {" ", "\t", "\n"}

RECURSIVE trimEnd(_)
trimEnd(s) ==
    IF Len(s) > 0 /\ s[Len(s)] \in Whitespace
    THEN trimEnd(SubSeq(s, 1, Len(s) - 1))
    ELSE s

\* String.prototype.trim
trim(s) == trimEnd(dropWhile(s, Whitespace))

\* the folder name is never tried
headerSuffix_CounterOnly(doc, counter) == <<"(">> \o numberToString(counter) \o <<")">>

\* the suffix callback given to ensureUniqueIdentifier (lines 221-231)
headerSuffix(doc, counter) ==
    LET pathParts == split(doc.path, "/")
        folderName == IF Len(pathParts) > 1 THEN pathParts[Len(pathParts) - 1] ELSE <<>>
    IN  IF doc.path # <<>> /\ counter = 2 /\ folderName # <<>>
        THEN <<"(">> \o capitalize(folderName) \o <<")">>
        ELSE <<"(">> \o numberToString(counter) \o <<")">>

\* ensureUniqueIdentifier (utils): the base when it is unused, otherwise
\* '<base> <suffix(counter)>' for the first counter from 2 that is unused
RECURSIVE nextUnusedIdentifier(_, _, _, _)
nextUnusedIdentifier(base, usedNames, doc, counter) ==
    LET candidate == base \o <<" ">> \o headerSuffix(doc, counter)
    IN  IF candidate \notin usedNames THEN candidate
        ELSE nextUnusedIdentifier(base, usedNames, doc, counter + 1)

ensureUniqueIdentifier(base, usedNames, doc) ==
    IF base \notin usedNames THEN base
    ELSE nextUnusedIdentifier(base, usedNames, doc, 2)

\* firstLine.match(/^#+\s+(.+)$/), then headingMatch[1].trim(): the text of
\* the heading, or null when the line is no heading
firstHeadingText(firstLine) ==
    LET afterHashes == dropWhile(firstLine, {"#"})
        rest == dropWhile(afterHashes, {" ", "\t"})
    IN  IF /\ Len(afterHashes) < Len(firstLine)
           /\ Len(rest) < Len(afterHashes)
           /\ (Len(rest) > 0 \/ Len(afterHashes) - Len(rest) >= 2)
        THEN trim(rest)
        ELSE NULL

\* trimmedContent.split('\n').slice(1).join('\n')
restOfContent(trimmedContent) == join(Tail(split(trimmedContent, "\n")), <<"\n">>)

\* the body is rendered in full whatever its first line is
fullContentSection_NeverStripped(doc, uniqueHeader) ==
    <<"#", "#", " ">> \o uniqueHeader \o <<"\n", "\n">> \o doc.content

\* the section of one document, given its unique header (lines 234-253)
fullContentSection(doc, uniqueHeader) ==
    LET trimmedContent == trim(doc.content)
        firstLine == split(trimmedContent, "\n")[1]
    IN  <<"#", "#", " ">> \o uniqueHeader \o <<"\n", "\n">>
            \o IF firstHeadingText(firstLine) = doc.title
               THEN restOfContent(trimmedContent)
               ELSE doc.content

\* a Set created inside the callback: every document starts from no header
MapDocument_FreshSet ==
    /\ pc = "mapping"
    /\ Len(fullContentSections) < Len(docs)
    /\ LET doc == docs[Len(fullContentSections) + 1]
           uniqueHeader == ensureUniqueIdentifier(doc.title, {}, doc)
       IN  /\ usedHeaders' = {uniqueHeader}
           /\ fullContentSections' =
                  Append(fullContentSections, fullContentSection(doc, uniqueHeader))
    /\ UNCHANGED <<pc, llmsFullTxt>>
    /\ UNCHANGED <<fnVars, genInputs, linksData, buildVars, fileVars>>

\* lines 208-254: one turn of docs.map, for the next document of the list
MapDocument ==
    /\ pc = "mapping"
    /\ Len(fullContentSections) < Len(docs)
    /\ LET doc == docs[Len(fullContentSections) + 1]
           uniqueHeader == ensureUniqueIdentifier(doc.title, usedHeaders, doc)
       IN  /\ usedHeaders' = usedHeaders \cup {uniqueHeader}
           /\ fullContentSections' =
                  Append(fullContentSections, fullContentSection(doc, uniqueHeader))
    /\ UNCHANGED <<pc, llmsFullTxt>>
    /\ UNCHANGED <<fnVars, genInputs, linksData, buildVars, fileVars>>

\* the sections are joined by an empty line alone
WriteFullFile_BlankLineOnly ==
    /\ pc = "mapping"
    /\ Len(fullContentSections) = Len(docs)
    /\ llmsFullTxt' = join(fullContentSections, <<"\n", "\n">>)
    /\ pc' = "done"
    /\ UNCHANGED <<usedHeaders, fullContentSections>>
    /\ UNCHANGED <<fnVars, genInputs, linksData, buildVars, fileVars>>

\* lines 257-266: fullContentSections.join('\n\n---\n\n') is written
WriteFullFile ==
    /\ pc = "mapping"
    /\ Len(fullContentSections) = Len(docs)
    /\ llmsFullTxt' = join(fullContentSections, <<"\n", "\n", "-", "-", "-", "\n", "\n">>)
    /\ pc' = "done"
    /\ UNCHANGED <<usedHeaders, fullContentSections>>
    /\ UNCHANGED <<fnVars, genInputs, linksData, buildVars, fileVars>>

MaxFullDocs == 3

S_T == <<"T">>
S_T_Cat1 == <<"T", " ", "(", "C", "a", "t", "1", ")">>
S_T_3 == <<"T", " ", "(", "3", ")">>

FullTitles == {S_T, S_T_Cat1}
FullPaths ==
    { <<"/">> \o join(<<S_docs, S_a, S_cat1, S_x>>, <<"/">>),
      <<"/">> \o join(<<S_docs, S_a, S_cat2, S_x>>, <<"/">>), <<"/", "x">>, <<>> }
\* bodies: a first-level heading of the title, no heading, a second-level
\* heading of the title behind spaces, a heading of another text, and a '#'
\* that opens no heading
FullContents ==
    { <<"#", " ", "T", "\n", "b">>,
      <<"b">>,
      <<" ", " ", "#", "#", " ", "T", " ", "\n", "b", "\n">>,
      <<"#", " ", "U", "\n", "b">>,
      <<"#", "T", "\n", "b">> }

FullDocPool ==
    [path : FullPaths, title : FullTitles, content : {<<"b">>}]
        \cup [path : {<<"/">> \o join(<<S_docs, S_a, S_cat1, S_x>>, <<"/">>)},
              title : FullTitles, content : FullContents]

FullInit ==
    /\ fnName = "none"
    /\ fnInput = NULL
    /\ fnOutput = NULL
    /\ docs \in UNION {[1..n -> FullDocPool] : n \in 0..MaxFullDocs}
    /\ files = [d \in {} |-> fileMissing]
    /\ includeDescriptionInLinks = FALSE
    /\ pc = "mapping"
    /\ docsByCategory = <<>>
    /\ pendingCategories = {}
    /\ categoryMetadataMap = [c \in {} |-> defaultMetadata]
    /\ sortedCategories = <<>>
    /\ sectionTasks = [c \in {} |-> 0]
    /\ llmsTxt = NULL
    /\ idleFull
    /\ idleBuild
    /\ idleFiles

FullNext ==
    \/ MapDocument
    \/ WriteFullFile

SpecFull == FullInit /\ [][FullNext]_vars

(***************************************************************************)
(* The plugin: detectCurrentLocale and postBuild                           *)
(***************************************************************************)
\* obj.key, undefined when the object has no such property
property(obj, key) == IF key \in DOMAIN obj THEN obj[key] ELSE undefined

\* Array.prototype.includes
includes(array, value) == \E i \in 1..Len(array) : array[i] = value

\* a string that is neither undefined nor empty
isTruthy(value) == value # undefined /\ value # <<>>

\* .filter(Boolean) on the parts of a split
filterBoolean(parts) == SelectSeq(parts, LAMBDA part : part # <<>>)

\* Method 2 of detectCurrentLocale (index.ts 68-77): the first segment of
\* the first route's path, when it is a locale; undefined otherwise
localeFromRoutes(buildProps, locales) ==
    LET routes == IF "routes" \in DOMAIN buildProps THEN buildProps.routes ELSE <<>>
        firstRoute == IF Len(routes) > 0 THEN routes[1] ELSE emptyObject
        routePath == property(firstRoute, "path")
        pathParts == IF isTruthy(routePath) THEN filterBoolean(split(routePath, "/")) ELSE <<>>
    IN  IF Len(pathParts) > 0 /\ includes(locales, pathParts[1])
        THEN pathParts[1]
        ELSE undefined

\* the directory of the build is looked at before the props and the routes
detectCurrentLocale_OutDirFirst(config, outputDir, buildProps) ==
    IF "i18n" \notin DOMAIN config THEN undefined
    ELSE
      LET i18n == config.i18n
          locales == IF "locales" \in DOMAIN i18n THEN i18n.locales ELSE <<>>
          propsLocale == IF isTruthy(property(buildProps, "locale"))
                         THEN buildProps.locale
                         ELSE property(buildProps, "currentLocale")
          outDirParts == split(outputDir, "/")
          lastPart == outDirParts[Len(outDirParts)]
      IN  IF includes(locales, lastPart) THEN lastPart
          ELSE IF isTruthy(propsLocale) /\ includes(locales, propsLocale) THEN propsLocale
          ELSE IF localeFromRoutes(buildProps, locales) # undefined
               THEN localeFromRoutes(buildProps, locales)
          ELSE i18n.defaultLocale

detectCurrentLocale(config, outputDir, buildProps) ==
    IF "i18n" \notin DOMAIN config THEN undefined
    ELSE
      LET i18n == config.i18n
          locales == IF "locales" \in DOMAIN i18n THEN i18n.locales ELSE <<>>
          propsLocale == IF isTruthy(property(buildProps, "locale"))
                         THEN buildProps.locale
                         ELSE property(buildProps, "currentLocale")
          outDirParts == split(outputDir, "/")
          lastPart == outDirParts[Len(outDirParts)]
      IN  IF isTruthy(propsLocale) /\ includes(locales, propsLocale) THEN propsLocale
          ELSE IF localeFromRoutes(buildProps, locales) # undefined
               THEN localeFromRoutes(buildProps, locales)
          ELSE IF includes(locales, lastPart) THEN lastPart
          ELSE i18n.defaultLocale

\* index.ts 141: siteConfig.i18n?.defaultLocale
defaultLocale == IF "i18n" \in DOMAIN siteConfig THEN siteConfig.i18n.defaultLocale ELSE undefined

\* a build that is never taken for another locale's
isOtherLocale_Never(locale, default) == FALSE

\* index.ts 195: currentLocale && defaultLocale && currentLocale !== defaultLocale
isOtherLocale(locale, default) ==
    isTruthy(locale) /\ isTruthy(default) /\ locale # default

\* index.ts 185-229: the locale test, then the first await of the try block
PostBuild(buildProps) ==
    /\ buildPc = "idle"
    /\ props' = buildProps
    /\ currentLocale' = detectCurrentLocale(siteConfig, outDir, buildProps)
    /\ buildPc' = IF isOtherLocale(currentLocale', defaultLocale) THEN "returned" ELSE "collecting"
    /\ UNCHANGED <<pluginContext, allDocFiles, outputFiles>>
    /\ UNCHANGED <<fnVars, genInputs, linksVars, fullVars, fileVars>>

\* the files readMarkdownFiles finds in a directory; none when fs.access fails
filesOf(dir) == IF dir \in DOMAIN fileTree THEN fileTree[dir] ELSE <<>>

\* generator 694-731
collectDocFiles == filesOf("docs") \o (IF options.includeBlog THEN filesOf("blog") ELSE <<>>)

\* index.ts 229-235: collectDocFiles resolves
CollectDocFiles ==
    /\ buildPc = "collecting"
    /\ allDocFiles' = collectDocFiles
    /\ buildPc' = IF Len(allDocFiles') = 0 THEN "returned" ELSE "standard"
    /\ UNCHANGED <<pluginContext, props, currentLocale, outputFiles>>
    /\ UNCHANGED <<fnVars, genInputs, linksVars, fullVars, fileVars>>

\* the per-document files of generateIndividualMarkdownFiles, when requested
markdownFiles(documents) ==
    IF options.generateMarkdownFiles THEN Range(documents) ELSE {}

\* generator 548-591: no standard file is wanted, or the documents are
\* processed and llms.txt is written when wanted
GenerateLLMsTxt ==
    /\ buildPc = "standard"
    /\ IF ~options.generateLLMsTxt /\ ~options.generateLLMsFullTxt
       THEN /\ buildPc' = "custom"
            /\ UNCHANGED outputFiles
       ELSE /\ buildPc' = "llmsFull"
            /\ outputFiles' = outputFiles \cup markdownFiles(allDocFiles)
                   \cup (IF options.generateLLMsTxt THEN {"llms.txt"} ELSE {})
    /\ UNCHANGED <<pluginContext, props, currentLocale, allDocFiles>>
    /\ UNCHANGED <<fnVars, genInputs, linksVars, fullVars, fileVars>>

\* generator 594-608: llms-full.txt is written when wanted
GenerateLLMsFullTxt ==
    /\ buildPc = "llmsFull"
    /\ outputFiles' = outputFiles
           \cup (IF options.generateLLMsFullTxt THEN {"llms-full.txt"} ELSE {})
    /\ buildPc' = "custom"
    /\ UNCHANGED <<pluginContext, props, currentLocale, allDocFiles>>
    /\ UNCHANGED <<fnVars, genInputs, linksVars, fullVars, fileVars>>

\* the documents one custom file takes: those its patterns match
customDocs(customFile) == SelectSeq(allDocFiles, LAMBDA f : f \in customFile.includePatterns)

\* generator 616-685: each custom file that matches a document is written
GenerateCustomLLMFiles ==
    /\ buildPc = "custom"
    /\ outputFiles' = outputFiles \cup
           UNION { IF Len(customDocs(options.customLLMFiles[i])) > 0
                   THEN {options.customLLMFiles[i].filename}
                            \cup markdownFiles(customDocs(options.customLLMFiles[i]))
                   ELSE {}
                   : i \in 1..Len(options.customLLMFiles) }
    /\ buildPc' = "done"
    /\ UNCHANGED <<pluginContext, props, currentLocale, allDocFiles>>
    /\ UNCHANGED <<fnVars, genInputs, linksVars, fullVars, fileVars>>

\* the error is thrown on and postBuild rejects
CatchError_Rethrow ==
    /\ buildPc \in {"collecting", "standard", "llmsFull", "custom"}
    /\ buildPc' = "rejected"
    /\ UNCHANGED <<pluginContext, props, currentLocale, allDocFiles, outputFiles>>
    /\ UNCHANGED <<fnVars, genInputs, linksVars, fullVars, fileVars>>

\* index.ts 250-256: an awaited call rejects and the error is logged
CatchError ==
    /\ buildPc \in {"collecting", "standard", "llmsFull", "custom"}
    /\ buildPc' = "caught"
    /\ UNCHANGED <<pluginContext, props, currentLocale, allDocFiles, outputFiles>>
    /\ UNCHANGED <<fnVars, genInputs, linksVars, fullVars, fileVars>>

S_en == <<"e", "n">>
S_fr == <<"f", "r">>
S_de == <<"d", "e">>
S_build == <<"b", "u", "i", "l", "d">>

SiteConfigs ==
    { emptyObject,
      [i18n |-> [defaultLocale |-> S_en, locales |-> <<S_en, S_fr>>]],
      [i18n |-> [defaultLocale |-> S_en, locales |-> <<S_en>>]] }

OutDirs ==
    { S_build, join(<<S_build, S_fr>>, <<"/">>), join(<<S_build, S_de>>, <<"/">>),
      join(<<S_fr, S_build>>, <<"/">>) }

route(routePath) == [path |-> routePath]

RouteLists ==
    { <<>>, <<emptyObject>>,
      <<route(<<"/">> \o join(<<S_fr, S_docs>>, <<"/">>))>>,
      <<route(<<"/">> \o S_docs), route(<<"/">> \o S_fr)>>,
      <<route(<<"/">> \o join(<<S_docs, S_fr>>, <<"/">>))>> }

\* the props postBuild may be given; a call without props reads as one whose
\* props have no property
PropsInputs ==
    { emptyObject }
    \cup { [locale |-> l] : l \in {S_fr, S_en, S_de} }
    \cup { [currentLocale |-> S_fr] }
    \cup { [locale |-> <<>>, currentLocale |-> S_fr] }
    \cup { [locale |-> S_de, currentLocale |-> S_fr] }
    \cup { [routes |-> r] : r \in RouteLists }
    \cup { [locale |-> S_de, routes |-> r] : r \in RouteLists }

CustomFileLists ==
    { <<>>,
      <<[filename |-> "llms-a.txt", includePatterns |-> {"docs/a.md"}]>>,
      <<[filename |-> "llms-blog.txt", includePatterns |-> {"blog/p.md"}]>> }

OptionsInputs ==
    [generateLLMsTxt : BOOLEAN, generateLLMsFullTxt : BOOLEAN,
     generateMarkdownFiles : BOOLEAN, includeBlog : BOOLEAN,
     customLLMFiles : CustomFileLists]

FileTrees ==
    { emptyObject,
      [docs |-> <<>>],
      [docs |-> <<"docs/a.md">>],
      [docs |-> <<"docs/a.md", "docs/b.md">>, blog |-> <<"blog/p.md">>] }

BuildInit ==
    /\ fnName = "none"
    /\ fnInput = NULL
    /\ fnOutput = NULL
    /\ docs = <<>>
    /\ files = [d \in {} |-> fileMissing]
    /\ includeDescriptionInLinks = FALSE
    /\ idleLinks
    /\ idleFull
    /\ siteConfig \in SiteConfigs
    /\ outDir \in OutDirs
    /\ options \in OptionsInputs
    /\ fileTree \in FileTrees
    /\ props = emptyObject
    /\ currentLocale = undefined
    /\ buildPc = "idle"
    /\ allDocFiles = undefined
    /\ outputFiles = {}
    /\ idleFiles

BuildNext ==
    \/ \E buildProps \in PropsInputs : PostBuild(buildProps)
    \/ CollectDocFiles
    \/ GenerateLLMsTxt
    \/ GenerateLLMsFullTxt
    \/ GenerateCustomLLMFiles
    \/ CatchError

SpecBuild == BuildInit /\ [][BuildNext]_vars

(***************************************************************************)
(* generateIndividualMarkdownFiles                                         *)
(***************************************************************************)
startsWith(s, prefix) == Len(prefix) <= Len(s) /\ SubSeq(s, 1, Len(prefix)) = prefix

\* String.prototype.toLowerCase
stringToLowerCase(s) == [i \in 1..Len(s) |-> toLowerCase(s[i])]

\* .replace(/\.mdx?$/, '.md')
forceMdExtension(s) == IF endsWith(s, S_mdx) THEN SubSeq(s, 1, Len(s) - 1) ELSE s

\* .replace(new RegExp(`^${docsDir}/`), '')
stripDocsDirPrefix(s, docsDir) ==
    IF startsWith(s, docsDir \o <<"/">>)
    THEN SubSeq(s, Len(docsDir) + 2, Len(s))
    ELSE s

\* .replace(/\.md$/, '')
stripDotMd(s) == IF endsWith(s, S_md) THEN SubSeq(s, 1, Len(s) - 3) ELSE s

\* pathParts[pathParts.length - 1] = segment; pathParts.join('/') + '.md'
replaceLastSegment(relativePath, segment) ==
    LET pathParts == split(stripDotMd(relativePath), "/")
    IN  join([pathParts EXCEPT ![Len(pathParts)] = segment], <<"/">>) \o S_md

\* part_000 441: doc.frontMatter.slug.replace(/^\/+|\/+$/g, '')
slugSegment(slug) == stripSlashes(slug)

S_untitled == <<"u", "n", "t", "i", "t", "l", "e", "d">>

FilenameCharacters ==
    {LowerCaseLetters[i] : i \in 1..Len(LowerCaseLetters)}
        \cup {Digits[i] : i \in 1..Len(Digits)} \cup {"-", "_"}

\* sanitizeForFilename (utils): a form of the title that is safe in a file
\* name, or the fallback when nothing is left of it
sanitizeForFilename(input, fallback) ==
    LET lowered == stringToLowerCase(input)
        sanitized == [i \in 1..Len(lowered) |->
                         IF lowered[i] \in FilenameCharacters THEN lowered[i] ELSE "-"]
    IN  IF input = <<>> THEN fallback ELSE sanitized

\* the id is looked at before the slug
candidatePath_IdFirst(doc, docsDir) ==
    LET fromPath == stripDocsDirPrefix(forceMdExtension(stripLeadingSlashes(doc.path)), docsDir)
        relativePath ==
            IF isTruthy(property(doc.frontMatter, "id"))
            THEN replaceLastSegment(fromPath, doc.frontMatter.id)
            ELSE IF isTruthy(property(doc.frontMatter, "slug"))
            THEN replaceLastSegment(fromPath, slugSegment(doc.frontMatter.slug))
            ELSE fromPath
    IN  IF relativePath = <<>> \/ relativePath = S_md
        THEN sanitizeForFilename(doc.title, S_untitled) \o S_md
        ELSE relativePath

\* part_000 430-455: the candidate output path of one document
candidatePath(doc, docsDir) ==
    LET fromPath == stripDocsDirPrefix(forceMdExtension(stripLeadingSlashes(doc.path)), docsDir)
        relativePath ==
            IF isTruthy(property(doc.frontMatter, "slug"))
            THEN replaceLastSegment(fromPath, slugSegment(doc.frontMatter.slug))
            ELSE IF isTruthy(property(doc.frontMatter, "id"))
            THEN replaceLastSegment(fromPath, doc.frontMatter.id)
            ELSE fromPath
    IN  IF relativePath = <<>> \/ relativePath = S_md
        THEN sanitizeForFilename(doc.title, S_untitled) \o S_md
        ELSE relativePath

\* part_000 462-465: `${basePath}-${counter}.${extension}`
suffixedPath(relativePath, counter) ==
    LET pathParts == split(relativePath, ".")
        last == pathParts[Len(pathParts)]
        extension == IF last = <<>> THEN <<"m", "d">> ELSE last
        basePath == join(SubSeq(pathParts, 1, Len(pathParts) - 1), <<".">>)
    IN  basePath \o <<"-">> \o numberToString(counter) \o <<".">> \o extension

\* part_000 458-466: while (usedPaths.has(uniquePath.toLowerCase()))
RECURSIVE uniquePathFrom(_, _, _, _)
uniquePathFrom(relativePath, uniquePath, counter, used) ==
    IF stringToLowerCase(uniquePath) \in used
    THEN uniquePathFrom(relativePath, suffixedPath(relativePath, counter + 1), counter + 1, used)
    ELSE uniquePath

S_siteUrl == <<"h", "t", "t", "p", ":", "/", "/", "e">>

\* the document of the input list is rewritten in place and handed back
MaterializeDocument_InPlace ==
    /\ pc = "materializing"
    /\ Len(updatedDocs) < Len(docs)
    /\ LET doc == docs[Len(updatedDocs) + 1]
           relativePath == candidatePath(doc, S_docs)
           uniquePath == uniquePathFrom(relativePath, relativePath, 1, usedPaths)
           updated == [doc EXCEPT !.url = S_siteUrl \o <<"/">> \o uniquePath,
                                  !.path = <<"/">> \o uniquePath]
       IN  /\ usedPaths' = usedPaths \cup {stringToLowerCase(uniquePath)}
           /\ writtenFiles' = Append(writtenFiles, uniquePath)
           /\ updatedDocs' = Append(updatedDocs, updated)
           /\ fileWrites' = Append(fileWrites, [file |-> uniquePath, source |-> doc.path])
           /\ docs' = [docs EXCEPT ![Len(updatedDocs) + 1] = updated]
    /\ UNCHANGED <<pc, files, includeDescriptionInLinks, customRun>>
    /\ UNCHANGED <<fnVars, linksData, fullVars, buildVars>>

\* part_000 428-510: one turn of the loop, for the next document of the list
MaterializeDocument ==
    /\ pc = "materializing"
    /\ Len(updatedDocs) < Len(docs)
    /\ LET doc == docs[Len(updatedDocs) + 1]
           relativePath == candidatePath(doc, S_docs)
           uniquePath == uniquePathFrom(relativePath, relativePath, 1, usedPaths)
       IN  /\ usedPaths' = usedPaths \cup {stringToLowerCase(uniquePath)}
           /\ writtenFiles' = Append(writtenFiles, uniquePath)
           /\ updatedDocs' = Append(updatedDocs,
                  [doc EXCEPT !.url = S_siteUrl \o <<"/">> \o uniquePath,
                              !.path = <<"/">> \o uniquePath])
           /\ fileWrites' = Append(fileWrites, [file |-> uniquePath, source |-> doc.path])
    /\ UNCHANGED <<pc, customRun>>
    /\ UNCHANGED <<fnVars, genInputs, linksData, fullVars, buildVars>>

\* the k-th document of a list among those kept
keptIndex(keep, k) == CHOOSE i \in keep : Cardinality({j \in keep : j <= i}) = k

\* the documents of a list that a selection keeps, in their order
keptDocs(docList, keep) == [k \in 1..Cardinality(keep) |-> docList[keptIndex(keep, k)]]

\* part_000 639-659: the documents selected for a custom file are handed
\* to generateIndividualMarkdownFiles, which begins with no path in use
StartCustomFile(keep) ==
    /\ pc = "done"
    /\ keep # {}
    /\ customInput' = keptDocs(docs, keep)
    /\ customUsedPaths' = {}
    /\ customUpdatedDocs' = <<>>
    /\ pc' = "customMaterializing"
    /\ UNCHANGED <<standardRun, fileWrites>>
    /\ UNCHANGED <<fnVars, genInputs, linksData, fullVars, buildVars>>

\* part_000 428-510 in the call for the custom file
MaterializeCustomDocument ==
    /\ pc = "customMaterializing"
    /\ Len(customUpdatedDocs) < Len(customInput)
    /\ LET doc == customInput[Len(customUpdatedDocs) + 1]
           relativePath == candidatePath(doc, S_docs)
           uniquePath == uniquePathFrom(relativePath, relativePath, 1, customUsedPaths)
       IN  /\ customUsedPaths' = customUsedPaths \cup {stringToLowerCase(uniquePath)}
           /\ customUpdatedDocs' = Append(customUpdatedDocs,
                  [doc EXCEPT !.url = S_siteUrl \o <<"/">> \o uniquePath,
                              !.path = <<"/">> \o uniquePath])
           /\ fileWrites' = Append(fileWrites, [file |-> uniquePath, source |-> doc.path])
    /\ UNCHANGED <<pc, customInput, standardRun>>
    /\ UNCHANGED <<fnVars, genInputs, linksData, fullVars, buildVars>>

\* part_000 512 in the call for the custom file
ReturnCustomDocs ==
    /\ pc = "customMaterializing"
    /\ Len(customUpdatedDocs) = Len(customInput)
    /\ pc' = "customDone"
    /\ UNCHANGED fileVars
    /\ UNCHANGED <<fnVars, genInputs, linksData, fullVars, buildVars>>

\* part_000 512: the updated documents are returned
ReturnUpdatedDocs ==
    /\ pc = "materializing"
    /\ Len(updatedDocs) = Len(docs)
    /\ pc' = "done"
    /\ UNCHANGED fileVars
    /\ UNCHANGED <<fnVars, genInputs, linksData, fullVars, buildVars>>

MaxFileDocs == 3

S_s == <<"s">>
S_i == <<"i">>

sourcePath(segments, extension) == join(segments, <<"/">>) \o extension

FileSourcePaths ==
    { sourcePath(<<S_docs, S_a, S_x>>, S_md),
      <<"/">> \o sourcePath(<<S_docs, S_a, <<"X">>>>, S_mdx),
      sourcePath(<<S_docs, S_a, <<"x", "-", "2">>>>, S_md),
      sourcePath(<<S_docs, S_a, S_x>>, <<>>),
      sourcePath(<<S_docs, <<>>>>, S_md) }

FileFrontMatters ==
    { emptyObject,
      [slug |-> S_s],
      [slug |-> <<"/">> \o join(<<S_y, S_s>>, <<"/">>) \o <<"/">>],
      [id |-> S_i],
      [slug |-> S_s, id |-> S_i] }

fileDocument(docPath, title, frontMatter) ==
    [path |-> docPath, title |-> title, frontMatter |-> frontMatter,
     url |-> S_siteUrl \o <<"/">> \o stripLeadingSlashes(docPath)]

FileDocPool ==
    {fileDocument(p, S_T, emptyObject) : p \in FileSourcePaths}
        \cup {fileDocument(sourcePath(<<S_docs, S_a, S_x>>, S_mdx), S_T, emptyObject)}
        \cup {fileDocument(sourcePath(<<S_docs, S_a, S_cat1, S_x>>, S_md), S_T, emptyObject)}
        \cup {fileDocument(sourcePath(<<S_docs, S_a, S_x>>, S_md), S_T, f) : f \in FileFrontMatters}
        \cup {fileDocument(sourcePath(<<S_docs, <<>>>>, S_md), <<>>, emptyObject)}
        \cup {fileDocument(sourcePath(<<S_docs, S_a, S_x>>, S_md), S_T, [slug |-> <<>>, id |-> S_i])}
        \cup {fileDocument(sourcePath(<<S_docs, S_x>>, S_md), t, [slug |-> <<"/">>]) : t \in {S_T, <<>>}}

FilesInit ==
    /\ fnName = "none"
    /\ fnInput = NULL
    /\ fnOutput = NULL
    /\ docs \in UNION {[1..n -> FileDocPool] : n \in 0..MaxFileDocs}
    /\ files = [d \in {} |-> fileMissing]
    /\ includeDescriptionInLinks = FALSE
    /\ pc = "materializing"
    /\ docsByCategory = <<>>
    /\ pendingCategories = {}
    /\ categoryMetadataMap = [c \in {} |-> defaultMetadata]
    /\ sortedCategories = <<>>
    /\ sectionTasks = [c \in {} |-> 0]
    /\ llmsTxt = NULL
    /\ idleFull
    /\ idleBuild
    /\ idleFiles

FilesNext ==
    \/ MaterializeDocument
    \/ ReturnUpdatedDocs
    \/ \E keep \in SUBSET (1..Len(docs)) : StartCustomFile(keep)
    \/ MaterializeCustomDocument
    \/ ReturnCustomDocs

SpecFiles == FilesInit /\ [][FilesNext]_vars

(***************************************************************************)
(* Document selection: processFilesWithPatterns and its two callers.  A    *)
(* file path and a pattern are sequences of segments; '*' stands for one   *)
(* segment and '**' for any number of them.                                *)
(***************************************************************************)
\* a glob pattern against a path
RECURSIVE matchesPattern(_, _)
matchesPattern(pattern, filePath) ==
    IF pattern = <<>> THEN filePath = <<>>
    ELSE IF pattern[1] = "**"
         THEN \/ matchesPattern(Tail(pattern), filePath)
              \/ filePath # <<>> /\ matchesPattern(pattern, Tail(filePath))
    ELSE /\ filePath # <<>>
         /\ pattern[1] \in {"*", filePath[1]}
         /\ matchesPattern(Tail(pattern), Tail(filePath))

matchesAny(patterns, filePath) ==
    \E i \in 1..Len(patterns) : matchesPattern(patterns[i], filePath)

\* the index of the first order pattern a path matches, 0 when it matches none
orderBucket(orderPatterns, filePath) ==
    IF matchesAny(orderPatterns, filePath)
    THEN CHOOSE i \in 1..Len(orderPatterns) :
             /\ matchesPattern(orderPatterns[i], filePath)
             /\ \A j \in 1..(i - 1) : ~matchesPattern(orderPatterns[j], filePath)
    ELSE 0

RECURSIVE bucketsFrom(_, _, _)
bucketsFrom(i, survivors, orderPatterns) ==
    IF i > Len(orderPatterns) THEN <<>>
    ELSE SelectSeq(survivors, LAMBDA f : orderBucket(orderPatterns, f) = i)
             \o bucketsFrom(i + 1, survivors, orderPatterns)

\* processFilesWithPatterns (processor): include, then ignore, then the
\* buckets of the order patterns, then the unmatched documents if wanted
processFilesWithPatterns(allFiles, includePatterns, ignorePatterns, orderPatterns, includeUnmatchedLast) ==
    LET included == SelectSeq(allFiles, LAMBDA f :
                        includePatterns = <<>> \/ matchesAny(includePatterns, f))
        survivors == SelectSeq(included, LAMBDA f : ~matchesAny(ignorePatterns, f))
    IN  bucketsFrom(1, survivors, orderPatterns)
            \o (IF includeUnmatchedLast
                THEN SelectSeq(survivors, LAMBDA f : orderBucket(orderPatterns, f) = 0)
                ELSE <<>>)

\* the include order is not handed on
selectStandardDocs_Unordered(allFiles, pluginOptions) ==
    processFilesWithPatterns(allFiles, <<>>, <<>>, <<>>, pluginOptions.includeUnmatchedLast)

\* part_000 552-559: the documents of llms.txt and llms-full.txt
selectStandardDocs(allFiles, pluginOptions) ==
    processFilesWithPatterns(allFiles, <<>>, <<>>, pluginOptions.includeOrder,
                             pluginOptions.includeUnmatchedLast)

\* the ignore patterns of the custom file are left out
combinedIgnores_GlobalOnly(ignoreFiles, customFile) == ignoreFiles

\* part_000 633-636: [...ignoreFiles], then the custom file's ignorePatterns
combinedIgnores(ignoreFiles, customFile) ==
    IF "ignorePatterns" \in DOMAIN customFile
    THEN ignoreFiles \o customFile.ignorePatterns
    ELSE ignoreFiles

\* part_000 639-646: the documents of one custom file
selectCustomDocs(allFiles, ignoreFiles, customFile) ==
    processFilesWithPatterns(
        allFiles,
        customFile.includePatterns,
        combinedIgnores(ignoreFiles, customFile),
        IF "orderPatterns" \in DOMAIN customFile THEN customFile.orderPatterns ELSE <<>>,
        IF "includeUnmatchedLast" \in DOMAIN customFile
        THEN customFile.includeUnmatchedLast ELSE FALSE)

SelectStandardDocs ==
    /\ fnName = "none"
    /\ fnInput.kind = "standard"
    /\ fnName' = "generateStandardLLMFiles"
    /\ fnOutput' = selectStandardDocs(fnInput.allDocFiles, fnInput.options)
    /\ UNCHANGED <<fnInput, genInputs, linksVars, fullVars, buildVars, fileVars>>

SelectCustomDocs ==
    /\ fnName = "none"
    /\ fnInput.kind = "custom"
    /\ fnName' = "generateCustomLLMFiles"
    /\ fnOutput' = selectCustomDocs(fnInput.allDocFiles, fnInput.ignoreFiles, fnInput.customFile)
    /\ UNCHANGED <<fnInput, genInputs, linksVars, fullVars, buildVars, fileVars>>

MaxSelectDocs == 3

F_ax == <<"docs", "a", "x.md">>
F_az == <<"docs", "a", "z.md">>
F_by == <<"docs", "b", "y.md">>
F_blog == <<"blog", "y.md">>

G_docsA == <<"docs", "a", "**">>
G_docs == <<"docs", "**">>
G_anyY == <<"**", "y.md">>
G_x == <<"docs", "*", "x.md">>

SelectFiles == {F_ax, F_az, F_by, F_blog}

SelectFileLists ==
    { fs \in UNION {[1..n -> SelectFiles] : n \in 0..MaxSelectDocs} :
        \A i, j \in 1..Len(fs) : i # j => fs[i] # fs[j] }

IncludePatternLists == { <<>>, <<G_docsA>>, <<G_docs>>, <<G_anyY, G_x>> }
IgnorePatternLists == { <<>>, <<G_x>>, <<G_docsA>> }
OrderPatternLists == { <<>>, <<G_docs, G_docsA>>, <<G_anyY, G_docsA>>, <<G_docsA, G_docs>> }

\* the properties of an object that are kept
restrictedTo(object, keys) == [k \in keys |-> object[k]]

CustomFiles ==
    { restrictedTo(cf, {"includePatterns"} \cup optional) :
        cf \in [includePatterns : IncludePatternLists,
                ignorePatterns : IgnorePatternLists \ {<<>>},
                orderPatterns : OrderPatternLists \ {<<>>},
                includeUnmatchedLast : BOOLEAN],
        optional \in SUBSET {"ignorePatterns", "orderPatterns", "includeUnmatchedLast"} }

SelectInputs ==
    { [kind |-> "standard", allDocFiles |-> fs,
       options |-> [includeOrder |-> ord, includeUnmatchedLast |-> last]] :
        fs \in SelectFileLists, ord \in OrderPatternLists, last \in BOOLEAN }
    \cup
    { [kind |-> "custom", allDocFiles |-> fs, ignoreFiles |-> ign, customFile |-> cf] :
        fs \in SelectFileLists, ign \in {<<>>, <<G_anyY>>}, cf \in CustomFiles }

SelectInit ==
    /\ fnName = "none"
    /\ fnInput \in SelectInputs
    /\ fnOutput = NULL
    /\ docs = <<>>
    /\ files = [d \in {} |-> fileMissing]
    /\ includeDescriptionInLinks = FALSE
    /\ idleLinks
    /\ idleFull
    /\ idleBuild
    /\ idleFiles

SelectNext ==
    \/ SelectStandardDocs
    \/ SelectCustomDocs

SpecSelect == SelectInit /\ [][SelectNext]_vars

(***************************************************************************)
(* Calls of the pure helpers.  A path is drawn by its shape: the number of *)
(* leading slashes, the segments, an extension and the number of trailing  *)
(* slashes; docPath is the string of that shape.                           *)
(***************************************************************************)
MaxSegs == 5
MaxLead == 2
MaxTrail == 1
MaxSortDocs == 3

SegAtoms == {S_docs, S_a}
DocsDirs == {S_docs, S_a}
Extensions == {<<>>, S_md, S_mdx}

SegLists ==
    UNION {[1..n -> SegAtoms \cup {<<>>}] : n \in 0..MaxSegs}

ExampleShapes ==
    { [lead |-> 1, segs |-> <<S_docs, S_sdk, S_access, S_x>>, ext |-> <<>>, trail |-> 0],
      [lead |-> 0, segs |-> <<S_docs, S_pc, S_cpp_sdk>>, ext |-> <<>>, trail |-> 0],
      [lead |-> 0, segs |-> <<S_other>>, ext |-> <<>>, trail |-> 0],
      [lead |-> 1, segs |-> <<S_docs, S_sdk, S_start, S_release_notes, S_unity>>,
       ext |-> <<>>, trail |-> 0],
      [lead |-> 1, segs |-> <<S_docs, S_sdk, S_start, S_agreement>>, ext |-> <<>>, trail |-> 0] }

\* the first segment is not empty; the last is not empty unless an extension follows
PathShapes ==
    { sh \in [lead : 0..MaxLead, segs : SegLists, ext : Extensions, trail : 0..MaxTrail] :
        Len(sh.segs) > 0 =>
            /\ sh.segs[1] # <<>>
            /\ (sh.segs[Len(sh.segs)] # <<>> \/ sh.ext # <<>>) }
    \cup ExampleShapes

slashes(n) == [i \in 1..n |-> "/"]

pathOfShape(sh) == slashes(sh.lead) \o join(sh.segs, <<"/">>) \o sh.ext \o slashes(sh.trail)

PathInputs ==
    { [kind |-> "path", shape |-> sh, docPath |-> pathOfShape(sh), docsDir |-> dd] :
        sh \in PathShapes, dd \in DocsDirs }

\* descriptions: spaces, a run of '#', spaces, a body of the given length with
\* or without an inline '#t', and possibly a second line
BodyLengths ==
    {0, 3, MaxDescriptionLength - 3, MaxDescriptionLength - 1, MaxDescriptionLength,
     MaxDescriptionLength + 1, 200}

DescriptionShapes ==
    [lead : 0..1, hashes : 0..2, gap : 0..2, bodyLen : BodyLengths,
     inlineTag : BOOLEAN, more : BOOLEAN]

repeated(c, n) == [i \in 1..n |-> c]

bodyOfShape(sh) ==
    [i \in 1..sh.bodyLen |->
        IF sh.inlineTag /\ i = 2 THEN "#" ELSE IF sh.inlineTag /\ i = 3 THEN "t" ELSE "a"]

descriptionOfShape(sh) ==
    repeated(" ", sh.lead) \o repeated("#", sh.hashes) \o repeated(" ", sh.gap)
        \o bodyOfShape(sh)
        \o (IF sh.more THEN <<"\n", "#", " ", "z">> ELSE <<>>)

DescriptionInputs ==
    { [kind |-> "description", shape |-> sh, description |-> descriptionOfShape(sh)] :
        sh \in DescriptionShapes }

SortPaths == { <<"/", "a">>, <<"/", "b">>, <<"/", "a", "/", "b">> }
SortPositions == {1, 2, DefaultPosition}
FrontMatters ==
    { [k \in {} |-> 0] } \cup { [k \in {"sidebar_position"} |-> p] : p \in SortPositions }
SortDocs == [path : SortPaths, frontMatter : FrontMatters]

SortInputs ==
    { [kind |-> "docs", docs |-> ds] : ds \in UNION {[1..n -> SortDocs] : n \in 0..MaxSortDocs} }

(***************************************************************************)
(* The values of a parsed _category_.json.  A JSON value is its type and   *)
(* its text, so that a position which is not a number can be told from one *)
(* which is.                                                               *)
(***************************************************************************)
jsonValue(type, text) == [type |-> type, text |-> text]

jsonNull == jsonValue("null", <<"n", "u", "l", "l">>)

\* the values JavaScript takes for false: null, false, 0 and ''
isFalsy(value) ==
    \/ value.type = "null"
    \/ value.type = "boolean" /\ value.text = <<"f", "a", "l", "s", "e">>
    \/ value.type = "number" /\ value.text = <<"0">>
    \/ value.type = "string" /\ value.text = <<>>

\* part_000 133-145 over the parsed values: a present position is handed on
\* as parsed, a label that is absent or falsy becomes null
readCategoryData(file) ==
    IF file.kind # "json" THEN nullMetadata
    ELSE [position |-> IF "position" \in DOMAIN file.data
                       THEN file.data["position"]
                       ELSE jsonValue("number", numberToString(DefaultPosition)),
          label |-> IF "label" \in DOMAIN file.data /\ ~isFalsy(file.data["label"])
                    THEN file.data["label"] ELSE jsonNull]

PositionValues ==
    { jsonValue("number", <<"1">>), jsonValue("number", <<"0">>),
      jsonValue("string", <<"2">>), jsonValue("string", <<"a">>),
      jsonNull, jsonValue("boolean", <<"t", "r", "u", "e">>) }

LabelValues ==
    { jsonValue("string", S_Lbl), jsonValue("string", <<>>), jsonNull,
      jsonValue("number", <<"0">>), jsonValue("number", <<"5">>),
      jsonValue("boolean", <<"f", "a", "l", "s", "e">>) }

CategoryDataInputs ==
    { [kind |-> "descriptor", file |-> f] :
        f \in {fileMissing, fileInvalid}
              \cup { fileJson(restrictedTo(data, keys)) :
                       data \in [position : PositionValues, label : LabelValues],
                       keys \in SUBSET {"position", "label"} } }

CallReadCategoryMetadata ==
    /\ fnName = "none"
    /\ fnInput.kind = "descriptor"
    /\ fnName' = "readCategoryMetadata"
    /\ fnOutput' = readCategoryData(fnInput.file)
    /\ UNCHANGED <<fnInput, genInputs, linksVars, fullVars, buildVars, fileVars>>

FnInit ==
    /\ fnName = "none"
    /\ fnInput \in PathInputs \cup SortInputs \cup DescriptionInputs \cup CategoryDataInputs
    /\ fnOutput = NULL
    /\ docs = <<>>
    /\ files = [d \in {} |-> fileMissing]
    /\ includeDescriptionInLinks = FALSE
    /\ idleLinks
    /\ idleFull
    /\ idleBuild
    /\ idleFiles

CallExtractCategoryFromPath ==
    /\ fnName = "none"
    /\ fnInput.kind = "path"
    /\ fnName' = "extractCategoryFromPath"
    /\ fnOutput' = extractCategoryFromPath(fnInput.docPath)
    /\ UNCHANGED <<fnInput, genInputs, linksVars, fullVars, buildVars, fileVars>>

CallExtractSubdirectoryFromPath ==
    /\ fnName = "none"
    /\ fnInput.kind = "path"
    /\ fnName' = "extractSubdirectoryFromPath"
    /\ fnOutput' = extractSubdirectoryFromPath(fnInput.docPath, fnInput.docsDir)
    /\ UNCHANGED <<fnInput, genInputs, linksVars, fullVars, buildVars, fileVars>>

\* [...docs].sort(...) sorts a copy: the argument keeps its order
CallSortDocsByPosition ==
    /\ fnName = "none"
    /\ fnInput.kind = "docs"
    /\ fnName' = "sortDocsByPosition"
    /\ fnOutput' = sortDocsByPosition(fnInput.docs)
    /\ UNCHANGED <<fnInput, genInputs, linksVars, fullVars, buildVars, fileVars>>

CallCleanDescriptionForToc ==
    /\ fnName = "none"
    /\ fnInput.kind = "description"
    /\ fnName' = "cleanDescriptionForToc"
    /\ fnOutput' = cleanDescriptionForToc(fnInput.description)
    /\ UNCHANGED <<fnInput, genInputs, linksVars, fullVars, buildVars, fileVars>>

FnNext ==
    \/ CallCleanDescriptionForToc
    \/ CallReadCategoryMetadata
    \/ CallExtractCategoryFromPath
    \/ CallExtractSubdirectoryFromPath
    \/ CallSortDocsByPosition

SpecFns == FnInit /\ [][FnNext]_vars

(***************************************************************************)
(* Claims about the helpers                                                *)
(***************************************************************************)
P_docs_sdk_access_x == <<"/", "d", "o", "c", "s", "/", "s", "d", "k", "/", "a", "c", "c", "e", "s", "s", "/", "x">>
P_docs_pc_cpp_sdk == <<"d", "o", "c", "s", "/", "p", "c", "/", "c", "p", "p", "-", "s", "d", "k">>
P_other == <<"o", "t", "h", "e", "r">>
P_release_notes_unity == <<"/", "d", "o", "c", "s", "/", "s", "d", "k", "/", "s", "t", "a", "r", "t", "/", "r", "e", "l", "e", "a", "s", "e", "-", "n", "o", "t", "e", "s", "/", "u", "n", "i", "t", "y">>
P_start_agreement == <<"/", "d", "o", "c", "s", "/", "s", "d", "k", "/", "s", "t", "a", "r", "t", "/", "a", "g", "r", "e", "e", "m", "e", "n", "t">>

\* the segments the shape of a path has once its outer slashes are removed
shapeParts(sh) ==
    IF sh.segs = <<>> THEN <<sh.ext>>
    ELSE [sh.segs EXCEPT ![Len(sh.segs)] = @ \o sh.ext]

\* the same, with a trailing .md / .mdx removed
shapePartsNoExt(sh) == IF sh.segs = <<>> THEN << <<>> >> ELSE sh.segs

C8_SubdirectoryBySegmentCount ==
    fnName = "extractSubdirectoryFromPath" =>
        LET parts == shapePartsNoExt(fnInput.shape)
        IN  /\ fnOutput = IF Len(parts) >= 5 /\ parts[1] = fnInput.docsDir
                          THEN parts[4]
                          ELSE NULL
            /\ (fnInput.docPath = P_release_notes_unity /\ fnInput.docsDir = S_docs)
                   => fnOutput = S_release_notes
            /\ (fnInput.docPath = P_start_agreement /\ fnInput.docsDir = S_docs)
                   => fnOutput = NULL

C8_Witness ==
    /\ fnName = "extractSubdirectoryFromPath"
    /\ fnInput.docPath = P_release_notes_unity
    /\ fnInput.docsDir = S_docs
    /\ fnOutput = S_release_notes

\* the number of times doc occurs in docs
occurrences(docList, doc) == Cardinality({i \in 1..Len(docList) : docList[i] = doc})

\* C4: sortDocsByPosition returns a permutation of its argument ordered by
\* (sidebar_position ?? 999, path): ascending position, and ascending path
\* among equal positions; the argument itself keeps its order.
C4_SortedPermutationOfInput ==
    [][ (fnName = "none" /\ fnName' = "sortDocsByPosition") =>
          /\ fnInput' = fnInput
          /\ Len(fnOutput') = Len(fnInput.docs)
          /\ \A d \in Range(fnInput.docs) \cup Range(fnOutput') :
                 occurrences(fnOutput', d) = occurrences(fnInput.docs, d)
          /\ \A i, j \in 1..Len(fnOutput') :
                 i < j =>
                     \/ sidebarPosition(fnOutput'[i]) < sidebarPosition(fnOutput'[j])
                     \/ /\ sidebarPosition(fnOutput'[i]) = sidebarPosition(fnOutput'[j])
                        /\ localeCompare(fnOutput'[i].path, fnOutput'[j].path) <= 0 ]_vars

\* a later document with a smaller position and a greater path was moved first
C4_Witness ==
    /\ fnName = "sortDocsByPosition"
    /\ Len(fnInput.docs) = 3
    /\ fnOutput # fnInput.docs
    /\ \E i, j \in 1..3 :
           /\ i < j
           /\ sidebarPosition(fnOutput[i]) < sidebarPosition(fnOutput[j])
           /\ localeCompare(fnOutput[i].path, fnOutput[j].path) > 0
    /\ \E i \in 1..2 :
           /\ "sidebar_position" \notin DOMAIN fnOutput[i].frontMatter
           /\ sidebarPosition(fnOutput[i]) = sidebarPosition(fnOutput[i + 1])

(***************************************************************************)
(* Claims about the links artifact.  They read the written text: a line    *)
(* '- [title](' is the link of the document of that title, '## ' opens a   *)
(* category section and '### ' a subgroup.                                 *)
(***************************************************************************)
isPrefix(prefix, line) ==
    Len(line) >= Len(prefix) /\ SubSeq(line, 1, Len(prefix)) = prefix

isH2(line) == isPrefix(<<"#", "#", " ">>, line)
isH3(line) == isPrefix(<<"#", "#", "#", " ">>, line)
isLinkOf(line, doc) == isPrefix(<<"-", " ", "[">> \o doc.title \o <<"]", "(">>, line)
isLink(line) == \E d \in Range(docs) : isLinkOf(line, d)
linkedDoc(line) == CHOOSE d \in Range(docs) : isLinkOf(line, d)

\* a sequence without the elements that repeat the one before them
RECURSIVE withoutRepeats(_)
withoutRepeats(seq) ==
    IF Len(seq) < 2 THEN seq
    ELSE IF seq[1] = seq[2] THEN withoutRepeats(Tail(seq))
    ELSE <<seq[1]>> \o withoutRepeats(Tail(seq))

\* the descriptor a directory holds, as position and label
descriptorAt(dir) == IF dir \in DOMAIN files THEN files[dir] ELSE fileMissing

descriptorPosition(file) ==
    IF file.kind = "json" /\ "position" \in DOMAIN file.data
    THEN file.data["position"] ELSE DefaultPosition

descriptorLabel(file) ==
    IF file.kind = "json" /\ "label" \in DOMAIN file.data /\ file.data["label"] # <<>>
    THEN file.data["label"] ELSE NULL

\* the descriptor of a category: the one beside its first document, when that
\* document lies in the docs directory
categoryDescriptor(category) ==
    LET first == docs[CHOOSE i \in 1..Len(docs) :
                         /\ docs[i].segments[3] = category
                         /\ \A j \in 1..(i - 1) : docs[j].segments[3] # category]
    IN  IF first.segments[1] = S_docs
        THEN descriptorAt(dirOf(first.segments, 3))
        ELSE fileMissing

inSubdirectory(doc) == Len(doc.segments) >= 5 /\ doc.segments[1] = S_docs

\* the categories of the link lines of a text, in the order of the text
renderedCategories(lines) ==
    LET links == SelectSeq(lines, isLink)
    IN  withoutRepeats([i \in 1..Len(links) |-> linkedDoc(links[i]).segments[3]])

\* the subdirectories of the link lines of a text, in the order of the text
renderedSubdirs(lines) ==
    LET links == SelectSeq(lines, LAMBDA l : isLink(l) /\ inSubdirectory(linkedDoc(l)))
    IN  withoutRepeats([i \in 1..Len(links) |-> linkedDoc(links[i]).segments[4]])

\* the category sections of a text: each from its '## ' line to the line
\* before the next one
categorySectionsOf(lines) ==
    LET starts == {i \in 1..Len(lines) : isH2(lines[i])}
    IN  { SubSeq(lines, i,
                 IF \E j \in starts : j > i
                 THEN (CHOOSE j \in starts : j > i /\ \A k \in starts : k > i => j <= k) - 1
                 ELSE Len(lines)) : i \in starts }

firstH3(section) ==
    IF \E i \in 1..Len(section) : isH3(section[i])
    THEN CHOOSE i \in 1..Len(section) :
             isH3(section[i]) /\ \A j \in 1..(i - 1) : ~isH3(section[j])
    ELSE Len(section) + 1

\* C2: categories are rendered in ascending order of descriptor position
\* (999 for a missing descriptor), equal positions in the order of
\* localeCompare on the key; in the scenario cat1 -> {position: 1},
\* cat2 -> {position: 0} the cat2 section comes before the cat1 section.
C2_CategoriesByPositionThenKey ==
    pc = "done" =>
        LET order == renderedCategories(llmsTxt)
        IN  /\ \A i, j \in 1..Len(order) :
                   i < j =>
                       LET pi == descriptorPosition(categoryDescriptor(order[i]))
                           pj == descriptorPosition(categoryDescriptor(order[j]))
                       IN  \/ pi < pj
                           \/ pi = pj /\ localeCompare(order[i], order[j]) < 0
            /\ (docs = scenarioDocs /\ files = scenarioFiles) => order = <<S_cat2, S_cat1>>

C2_Witness ==
    /\ pc = "done"
    /\ docs = scenarioDocs
    /\ files = scenarioFiles
    /\ renderedCategories(llmsTxt) = <<S_cat2, S_cat1>>

\* C3 as stated: within a category the subgroups are rendered in ascending
\* order of descriptor position, a missing or unreadable descriptor counting
\* as 999, equal positions in lexical order of the subdirectory name.
C3_SubgroupsByPositionThenName ==
    pc = "done" =>
        \A section \in categorySectionsOf(llmsTxt) :
            LET order == renderedSubdirs(section)
                dirPosition(sd) ==
                    LET doc == CHOOSE d \in Range(docs) :
                                   inSubdirectory(d) /\ d.segments[4] = sd
                    IN  descriptorPosition(descriptorAt(dirOf(doc.segments, 4)))
            IN  \A i, j \in 1..Len(order) :
                    i < j =>
                        \/ dirPosition(order[i]) < dirPosition(order[j])
                        \/ /\ dirPosition(order[i]) = dirPosition(order[j])
                           /\ localeCompare(order[i], order[j]) < 0

\* C5: in every category section the links of the documents at the category
\* root come first, with no sub-heading before them, and every '### '
\* heading and its links come after all of them.
C5_RootLinksBeforeSubgroups ==
    pc = "done" =>
        \A section \in categorySectionsOf(llmsTxt) :
            /\ \A i \in 1..Len(section) :
                   isLink(section[i]) =>
                       IF inSubdirectory(linkedDoc(section[i]))
                       THEN i > firstH3(section)
                       ELSE i < firstH3(section)
            /\ (\E i \in 1..Len(section) :
                    isLink(section[i]) /\ ~inSubdirectory(linkedDoc(section[i])))
                   => (Len(section) >= 3 /\ isLink(section[3])
                         /\ ~inSubdirectory(linkedDoc(section[3])))

\* the subdirectory document came first in the input, the root link is first
C5_Witness ==
    /\ pc = "done"
    /\ docs = <<docG, docX>>
    /\ isLinkOf(llmsTxt[3], docX)
    /\ isH3(llmsTxt[5])
    /\ isLinkOf(llmsTxt[7], docG)

\* text is key with every '-' replaced by a space and the first letter of
\* every piece in upper case
isFormattedKey(key, text) ==
    /\ Len(text) = Len(key)
    /\ \A i \in 1..Len(key) :
           text[i] = IF key[i] = "-" THEN " "
                     ELSE IF i = 1 \/ key[i - 1] = "-" THEN toUpperCase(key[i])
                     ELSE key[i]

isHeadingFor(text, key, descriptor) ==
    IF descriptorLabel(descriptor) # NULL
    THEN text = descriptorLabel(descriptor)
    ELSE /\ isFormattedKey(key, text)
         /\ key = S_getting_started => text = S_Getting_Started
         /\ key = S_anti_addiction => text = S_Anti_Addiction

displayHeader(section) == SubSeq(split(section, "\n")[1], 4, Len(split(section, "\n")[1]))

\* C10: in one full-content run the display header of every document differs
\* from the display header of every earlier document, and the headers given
\* so far are exactly the used-header set the next document is checked against.
C10_DisplayHeadersDistinct ==
    /\ \A i, j \in 1..Len(fullContentSections) :
           i < j => displayHeader(fullContentSections[i]) # displayHeader(fullContentSections[j])
    /\ usedHeaders = {displayHeader(fullContentSections[i]) : i \in 1..Len(fullContentSections)}

\* a title taken by an earlier document, whose folder suffix is taken too
C10_Witness ==
    /\ Len(fullContentSections) = 3
    /\ docs[1].title = S_T_Cat1
    /\ docs[2].title = S_T
    /\ docs[3].title = S_T
    /\ displayHeader(fullContentSections[1]) = S_T_Cat1
    /\ displayHeader(fullContentSections[2]) = S_T
    /\ displayHeader(fullContentSections[3]) = S_T_3

(***************************************************************************)
(* Claims about postBuild                                                  *)
(***************************************************************************)
i18nConfigured == "i18n" \in DOMAIN siteConfig

\* C1: once postBuild has run its locale test, a build whose detected locale
\* differs from i18n.defaultLocale (i18n being configured) has returned with
\* no document collected and no file written; a build of the default locale,
\* or of a site without i18n, has gone on to collect the documents.
C1_DefaultLocaleOnly ==
    buildPc # "idle" =>
        /\ (i18nConfigured /\ currentLocale # siteConfig.i18n.defaultLocale)
               => (buildPc = "returned" /\ allDocFiles = undefined /\ outputFiles = {})
        /\ (~i18nConfigured \/ currentLocale = siteConfig.i18n.defaultLocale)
               => (buildPc = "collecting" \/ buildPc = "caught" \/ allDocFiles # undefined)

\* a build into build/fr of a site whose default locale is en
C1_Witness ==
    /\ i18nConfigured
    /\ siteConfig.i18n.defaultLocale = S_en
    /\ currentLocale = S_fr
    /\ props = emptyObject
    /\ buildPc = "returned"
    /\ allDocFiles = undefined
    /\ outputFiles = {}

(***************************************************************************)
(* Claims about the per-document files                                     *)
(***************************************************************************)
\* the position of the last '.' of a path, 0 when its last segment has none
RECURSIVE extensionDot(_, _)
extensionDot(docPath, i) ==
    IF i = 0 \/ docPath[i] = "/" THEN 0
    ELSE IF docPath[i] = "." THEN i
    ELSE extensionDot(docPath, i - 1)

\* the path with '-N' put immediately before its file extension
withNumberBeforeExtension(docPath, n) ==
    LET dot == extensionDot(docPath, Len(docPath))
        stem == IF dot = 0 THEN docPath ELSE SubSeq(docPath, 1, dot - 1)
        extension == IF dot = 0 THEN <<>> ELSE SubSeq(docPath, dot, Len(docPath))
    IN  stem \o <<"-">> \o numberToString(n) \o extension

registeredBefore(i) == {stringToLowerCase(writtenFiles[j]) : j \in 1..(i - 1)}

\* C11: the output paths assigned so far are pairwise distinct without regard
\* to case and are exactly the registered ones; a document whose candidate is
\* free receives it, and one whose candidate is registered receives the
\* candidate with '-N' before the file extension for the smallest N >= 2 that
\* is free.
C11_OutputPathsDistinct ==
    /\ \A i, j \in 1..Len(writtenFiles) :
           i < j => stringToLowerCase(writtenFiles[i]) # stringToLowerCase(writtenFiles[j])
    /\ usedPaths = registeredBefore(Len(writtenFiles) + 1)
    /\ \A i \in 1..Len(writtenFiles) :
           LET candidate == candidatePath(docs[i], S_docs)
               isFree(n) == stringToLowerCase(withNumberBeforeExtension(candidate, n))
                                \notin registeredBefore(i)
           IN  IF stringToLowerCase(candidate) \notin registeredBefore(i)
               THEN writtenFiles[i] = candidate
               ELSE \E n \in 2..(i + 1) :
                       /\ writtenFiles[i] = withNumberBeforeExtension(candidate, n)
                       /\ isFree(n)
                       /\ \A m \in 2..(n - 1) : ~isFree(m)

segmentsOf(docPath) == split(docPath, "/")

\* the last segment of a slug once the slashes around it are set aside
trailingSegment(slug) ==
    LET parts == SelectSeq(split(slug, "/"), LAMBDA part : part # <<>>)
    IN  IF Len(parts) = 0 THEN <<>> ELSE parts[Len(parts)]

\* C12: for every document with a slug, the candidate path has as many
\* segments as the candidate of the same document without frontmatter, the
\* same segments but the last, and the slug's trailing segment as the name of
\* the last one, whether or not the slug begins with '/'.
C12_SlugReplacesFinalSegment ==
    \A i \in 1..Len(writtenFiles) :
        isTruthy(property(docs[i].frontMatter, "slug")) =>
            LET withSlug == segmentsOf(candidatePath(docs[i], S_docs))
                plain == segmentsOf(candidatePath([docs[i] EXCEPT !.frontMatter = emptyObject], S_docs))
            IN  /\ Len(withSlug) = Len(plain)
                /\ SubSeq(withSlug, 1, Len(withSlug) - 1) = SubSeq(plain, 1, Len(plain) - 1)
                /\ withSlug[Len(withSlug)] = trailingSegment(docs[i].frontMatter.slug) \o S_md

(***************************************************************************)
(* Claims about the link lines                                             *)
(***************************************************************************)
bareLink(doc) == <<"-", " ", "[">> \o doc.title \o <<"]", "(">> \o doc.url \o <<")">>

linkLinesOf(doc) == {i \in 1..Len(llmsTxt) : isLinkOf(llmsTxt[i], doc)}

\* the one line of the text that links the document
linkLineOf(doc) == llmsTxt[CHOOSE i \in linkLinesOf(doc) : TRUE]

oneLinePerDocument ==
    /\ \A d \in Range(docs) : Cardinality(linkLinesOf(d)) = 1
    /\ Cardinality({i \in 1..Len(llmsTxt) : isPrefix(<<"-", " ", "[">>, llmsTxt[i])}) = Len(docs)

\* C13 as stated: one line per document, '- [title](url)' with descriptions
\* disabled and '- [title](url): <cleaned description>' with descriptions
\* enabled.
C13_Original ==
    pc = "done" =>
        /\ oneLinePerDocument
        /\ \A d \in Range(docs) :
               linkLineOf(d) =
                   IF includeDescriptionInLinks
                   THEN bareLink(d) \o <<":", " ">> \o cleanDescriptionForToc(d.description)
                   ELSE bareLink(d)

\* C13: one line per document; it is '- [title](url)' with descriptions
\* disabled, and also with descriptions enabled when the cleaned description
\* is empty; it is '- [title](url): <cleaned description>' with descriptions
\* enabled and a non-empty cleaned description.
C13_OneLinkLinePerDocument ==
    pc = "done" =>
        /\ oneLinePerDocument
        /\ \A d \in Range(docs) :
               linkLineOf(d) =
                   IF includeDescriptionInLinks /\ cleanDescriptionForToc(d.description) # <<>>
                   THEN bareLink(d) \o <<":", " ">> \o cleanDescriptionForToc(d.description)
                   ELSE bareLink(d)

\* descriptions enabled: one document with a description, one without
C13_Witness ==
    /\ pc = "done"
    /\ includeDescriptionInLinks
    /\ docX \in Range(docs)
    /\ docY \in Range(docs)
    /\ linkLineOf(docY) = <<"-", " ", "[", "Y", "]", "(", "u", "/", "y", ")", ":", " ", "d">>
    /\ linkLineOf(docX) = <<"-", " ", "[", "X", "]", "(", "u", "/", "x", ")">>

(***************************************************************************)
(* Claims about cleanDescriptionForToc                                     *)
(***************************************************************************)
\* the first line a description shape stands for, and what is left of it
\* once a '#' run with whitespace after it, at the very start, is taken off
shapeFirstLine(sh) ==
    repeated(" ", sh.lead) \o repeated("#", sh.hashes) \o repeated(" ", sh.gap)
        \o bodyOfShape(sh)

shapeCleanedLine(sh) ==
    IF sh.lead = 0 /\ sh.hashes >= 1 /\ sh.gap >= 1
    THEN bodyOfShape(sh)
    ELSE shapeFirstLine(sh)

\* C14: the result has at most 150 characters and comes from the first line
\* alone: a '#' run followed by whitespace at the very start is removed and
\* every other '#' is kept; a cleaned line of more than 150 characters gives
\* its first 147 characters and '...', 150 in all; a shorter one is returned
\* as it is.
C14_CleanedDescription ==
    fnName = "cleanDescriptionForToc" =>
        LET cleaned == shapeCleanedLine(fnInput.shape)
        IN  /\ Len(fnOutput) <= 150
            /\ Len(cleaned) <= 150 => fnOutput = cleaned
            /\ Len(cleaned) > 150 =>
                   /\ Len(fnOutput) = 150
                   /\ SubSeq(fnOutput, 1, 147) = SubSeq(cleaned, 1, 147)
                   /\ SubSeq(fnOutput, 148, 150) = <<".", ".", ".">>

\* a description of 200 characters behind '# ', with an inline '#t' and a
\* second line
C14_Witness ==
    /\ fnName = "cleanDescriptionForToc"
    /\ fnInput.shape = [lead |-> 0, hashes |-> 1, gap |-> 1, bodyLen |-> 200,
                        inlineTag |-> TRUE, more |-> TRUE]
    /\ Len(fnOutput) = 150
    /\ SubSeq(fnOutput, 1, 4) = <<"a", "#", "t", "a">>
    /\ fnOutput[150] = "."

(***************************************************************************)
(* Claims about the sections of the full-content artifact                  *)
(***************************************************************************)
\* what follows the heading line and the empty line after it
sectionBody(section) ==
    SubSeq(section, Len(displayHeader(section)) + 6, Len(section))

isBlank(text) == \A i \in 1..Len(text) : text[i] \in {" ", "\t"}

\* a line made of one or more '#', whitespace, and the title between spaces
isHeadingOf(line, title) ==
    \E n \in 1..Len(line) : \E k \in (n + 1)..Len(line) :
        /\ \A i \in 1..n : line[i] = "#"
        /\ isBlank(SubSeq(line, n + 1, k))
        /\ \E m \in k..Len(line) :
               /\ SubSeq(line, k + 1, m) = title
               /\ isBlank(SubSeq(line, m + 1, Len(line)))

\* the lines of a body once the whitespace around the body is set aside
trimmedLines(content) == split(trim(content), "\n")

\* the body a document is rendered with
renderedBody(doc) ==
    IF isHeadingOf(trimmedLines(doc.content)[1], doc.title)
    THEN join(Tail(trimmedLines(doc.content)), <<"\n">>)
    ELSE doc.content

\* C15: the body of every section is the document's body; its first line is
\* left out when, the whitespace around the body set aside, that line is a
\* heading whose text is the title, and no line is left out otherwise.
C15_TitleHeadingStripped ==
    \A i \in 1..Len(fullContentSections) :
        sectionBody(fullContentSections[i]) = renderedBody(docs[i])

\* one body opens with the heading of its title, the next with another heading
C15_Witness ==
    /\ Len(fullContentSections) = 2
    /\ docs[1].title = S_T
    /\ docs[1].content = <<" ", " ", "#", "#", " ", "T", " ", "\n", "b", "\n">>
    /\ sectionBody(fullContentSections[1]) = <<"b">>
    /\ docs[2].title = S_T
    /\ docs[2].content = <<"#", " ", "U", "\n", "b">>
    /\ sectionBody(fullContentSections[2]) = <<"#", " ", "U", "\n", "b">>

HorizontalRule == <<"\n", "\n", "-", "-", "-", "\n", "\n">>

occurrencesOf(part, text) ==
    Cardinality({i \in 1..(Len(text) - Len(part) + 1) :
                    SubSeq(text, i, i + Len(part) - 1) = part})

\* the text from its i-th section on
RECURSIVE sectionsFrom(_)
sectionsFrom(i) ==
    IF i > Len(fullContentSections) THEN <<>>
    ELSE fullContentSections[i]
             \o (IF i < Len(fullContentSections) THEN HorizontalRule ELSE <<>>)
             \o sectionsFrom(i + 1)

\* C16: there is one section per document, in the order of the input list;
\* the i-th section is '## ', a display header that opens with the title of
\* the i-th document, an empty line and that document's body; the written
\* text is the sections with one horizontal rule between two neighbours, so
\* n >= 1 documents give n sections and n - 1 rules.
C16_OneSectionPerDocumentInOrder ==
    pc = "done" =>
        /\ Len(fullContentSections) = Len(docs)
        /\ \A i \in 1..Len(docs) :
               /\ isPrefix(<<"#", "#", " ">> \o docs[i].title, fullContentSections[i])
               /\ sectionBody(fullContentSections[i]) = renderedBody(docs[i])
        /\ llmsFullTxt = sectionsFrom(1)
        /\ Len(docs) >= 1 => occurrencesOf(HorizontalRule, llmsFullTxt) = Len(docs) - 1

\* three documents, two rules
C16_Witness ==
    /\ pc = "done"
    /\ Len(docs) = 3
    /\ docs[1].title = S_T_Cat1
    /\ docs[2].title = S_T
    /\ docs[1].content # docs[3].content
    /\ occurrencesOf(HorizontalRule, llmsFullTxt) = 2
    /\ isPrefix(<<"#", "#", " ">> \o S_T_Cat1 \o <<"\n", "\n">>, llmsFullTxt)

(***************************************************************************)
(* Claims about failed descriptor lookups                                  *)
(***************************************************************************)
\* the descriptor files, with a file that holds the default descriptor and
\* nothing else wherever the lookup fails
withDefaultDescriptors ==
    [dir \in descriptorDirs(docs) |->
        IF descriptorAt(dir).kind = "json" THEN descriptorAt(dir)
        ELSE fileJson([k \in {} |-> 0])]

someLookupFails == \E dir \in descriptorDirs(docs) : descriptorAt(dir).kind # "json"

\* the links text of the documents over a file system
linksTextOver(fileSystem) ==
    LET byCategory == groupByCategory(<<>>, docs)
        metadataMap == [c \in Range(mapKeys(byCategory)) |->
                           getCategoryMetadata(fileSystem, mapGet(byCategory, c)[1].path, S_docs)]
        subdirMetadata(c, sd) ==
            readCategoryMetadata(fileSystem, subdirPath(mapGet(byCategory, c), sd, S_docs))
        subdirMap(c) ==
            [sd \in {x \in subdirsToRead(mapGet(byCategory, c), S_docs) :
                        subdirMetadata(c, x) # nullMetadata} |-> subdirMetadata(c, sd)]
        sorted == sortCategories(mapKeys(byCategory), metadataMap)
    IN  joinSections([i \in 1..Len(sorted) |->
            categorySection(sorted[i], mapGet(byCategory, sorted[i]), metadataMap,
                            subdirMap(sorted[i]), S_docs, includeDescriptionInLinks)])

\* a read is under way and will complete, or a continuation is ready to run
linksCanStep ==
    \/ pc = "start"
    \/ pc = "readingCategories" /\ pendingCategories \subseteq Range(mapKeys(docsByCategory))
    \/ /\ pc = "sections"
       /\ \A c \in DOMAIN sectionTasks :
              \/ sectionTasks[c].state = "done"
              \/ /\ sectionTasks[c].state = "reading"
                 /\ sectionTasks[c].pending
                        \subseteq subdirsToRead(mapGet(docsByCategory, c), S_docs)

\* C17: a failed descriptor lookup stops nothing: while the text is not
\* written, a read is under way or a continuation is ready, whatever the
\* lookups gave; the written text has a '## ' section for every
\* category, and it is the text that is written when every directory whose
\* lookup fails holds the default descriptor {position: 999, label: null}.
C17_FailedLookupIsDefaultDescriptor ==
    /\ pc # "done" => linksCanStep
    /\ pc = "done" =>
           /\ Cardinality({i \in 1..Len(llmsTxt) : isH2(llmsTxt[i])})
                  = Cardinality({docs[i].segments[3] : i \in 1..Len(docs)})
           /\ llmsTxt = linksTextOver(withDefaultDescriptors)

(***************************************************************************)
(* Selection claims.  Which path a pattern matches is written down here    *)
(* pair by pair, apart from the matcher of the model.                      *)
(***************************************************************************)
MatchTable ==
    { <<G_docsA, F_ax>>, <<G_docsA, F_az>>,
      <<G_docs, F_ax>>, <<G_docs, F_az>>, <<G_docs, F_by>>,
      <<G_anyY, F_by>>, <<G_anyY, F_blog>>,
      <<G_x, F_ax>> }

elementsOf(sequence) == { sequence[i] : i \in 1..Len(sequence) }

matchesOneOf(patterns, filePath) ==
    \E pattern \in patterns : <<pattern, filePath>> \in MatchTable

selectionDone == fnName \in {"generateStandardLLMFiles", "generateCustomLLMFiles"}

givenIncludes ==
    IF fnInput.kind = "custom" THEN elementsOf(fnInput.customFile.includePatterns) ELSE {}

givenIgnores ==
    IF fnInput.kind = "custom"
    THEN elementsOf(fnInput.ignoreFiles)
             \cup (IF "ignorePatterns" \in DOMAIN fnInput.customFile
                   THEN elementsOf(fnInput.customFile.ignorePatterns) ELSE {})
    ELSE {}

givenOrder ==
    IF fnInput.kind = "standard" THEN fnInput.options.includeOrder
    ELSE IF "orderPatterns" \in DOMAIN fnInput.customFile
         THEN fnInput.customFile.orderPatterns ELSE <<>>

givenUnmatchedLast ==
    IF fnInput.kind = "standard" THEN fnInput.options.includeUnmatchedLast
    ELSE /\ "includeUnmatchedLast" \in DOMAIN fnInput.customFile
         /\ fnInput.customFile.includeUnmatchedLast

passesFilters(filePath) ==
    /\ givenIncludes = {} \/ matchesOneOf(givenIncludes, filePath)
    /\ ~matchesOneOf(givenIgnores, filePath)

\* C18: a selected document matches an include pattern (or there is none)
\* and matches no ignore pattern, neither a global one nor one of the custom
\* file; a document matching both an include and an ignore is left out.
C18_IgnoreWinsOverInclude ==
    selectionDone =>
        \A filePath \in elementsOf(fnInput.allDocFiles) :
            filePath \in elementsOf(fnOutput) => passesFilters(filePath)

C18_Witness ==
    /\ fnName = "generateCustomLLMFiles"
    /\ fnOutput # <<>>
    /\ \E filePath \in elementsOf(fnInput.allDocFiles) :
           /\ matchesOneOf(givenIncludes, filePath)
           /\ ~matchesOneOf(elementsOf(fnInput.ignoreFiles), filePath)
           /\ matchesOneOf(givenIgnores, filePath)
           /\ filePath \notin elementsOf(fnOutput)

positionIn(sequence, element) == CHOOSE i \in 1..Len(sequence) : sequence[i] = element

\* the bucket of a path: the first order pattern it matches, after all of
\* them when it matches none
bucketOf(filePath) ==
    LET hits == { i \in 1..Len(givenOrder) : <<givenOrder[i], filePath>> \in MatchTable }
    IN  IF hits = {} THEN Len(givenOrder) + 1
        ELSE CHOOSE i \in hits : \A j \in hits : i <= j

isUnmatched(filePath) == bucketOf(filePath) = Len(givenOrder) + 1

\* C19: the output holds the filtered documents by ascending bucket, in
\* input order inside a bucket, each once; the documents matching no order
\* pattern come last when includeUnmatchedLast is true and are dropped
\* when it is false.
C19_BucketOrdering ==
    selectionDone =>
        /\ \A i, j \in 1..Len(fnOutput) : i < j =>
               \/ bucketOf(fnOutput[i]) < bucketOf(fnOutput[j])
               \/ /\ bucketOf(fnOutput[i]) = bucketOf(fnOutput[j])
                  /\ positionIn(fnInput.allDocFiles, fnOutput[i])
                         < positionIn(fnInput.allDocFiles, fnOutput[j])
        /\ elementsOf(fnOutput) =
               { filePath \in elementsOf(fnInput.allDocFiles) :
                   /\ passesFilters(filePath)
                   /\ isUnmatched(filePath) => givenUnmatchedLast }

C19_Witness ==
    /\ selectionDone
    /\ givenUnmatchedLast
    /\ \E i, j \in 1..Len(fnOutput) :
           /\ i < j
           /\ positionIn(fnInput.allDocFiles, fnOutput[i])
                  > positionIn(fnInput.allDocFiles, fnOutput[j])
           /\ \E k \in 1..Len(givenOrder) :
                  k > bucketOf(fnOutput[i]) /\ <<givenOrder[k], fnOutput[i]>> \in MatchTable
    /\ isUnmatched(fnOutput[Len(fnOutput)])

(***************************************************************************)
(* Locale detection.  The segments of the route paths and of the output    *)
(* directories are written down here case by case.                         *)
(***************************************************************************)
noLocale == <<>>

configuredLocales == IF i18nConfigured THEN elementsOf(siteConfig.i18n.locales) ELSE {}

\* props.locale, or props.currentLocale when there is no props.locale
localeOfProps ==
    IF "locale" \in DOMAIN props /\ props.locale # <<>> THEN props.locale
    ELSE IF "currentLocale" \in DOMAIN props THEN props.currentLocale
    ELSE noLocale

\* the first path segment of the first route
firstRouteSegment ==
    IF "routes" \notin DOMAIN props THEN noLocale
    ELSE IF props.routes = <<>> THEN noLocale
    ELSE IF "path" \notin DOMAIN props.routes[1] THEN noLocale
    ELSE CASE props.routes[1].path = <<"/", "f", "r", "/", "d", "o", "c", "s">> -> S_fr
           [] props.routes[1].path = <<"/", "d", "o", "c", "s">> -> S_docs
           [] props.routes[1].path = <<"/", "d", "o", "c", "s", "/", "f", "r">> -> S_docs

\* the last segment of the output directory
lastOutDirSegment ==
    CASE outDir = <<"b", "u", "i", "l", "d">> -> S_build
      [] outDir = <<"b", "u", "i", "l", "d", "/", "f", "r">> -> S_fr
      [] outDir = <<"b", "u", "i", "l", "d", "/", "d", "e">> -> S_de
      [] outDir = <<"f", "r", "/", "b", "u", "i", "l", "d">> -> S_build

localeByPriority ==
    IF localeOfProps \in configuredLocales THEN localeOfProps
    ELSE IF firstRouteSegment \in configuredLocales THEN firstRouteSegment
    ELSE IF lastOutDirSegment \in configuredLocales THEN lastOutDirSegment
    ELSE siteConfig.i18n.defaultLocale

\* C20: once postBuild has detected the locale, it is undefined exactly
\* when i18n is not configured; otherwise it is the locale of the props if
\* that is a configured locale, else the first segment of the first route if
\* that is one, else the last segment of outDir if that is one, else the
\* default locale; so it is a configured locale or the default locale.
C20_LocaleByPriority ==
    buildPc # "idle" =>
        /\ currentLocale = undefined <=> ~i18nConfigured
        /\ i18nConfigured =>
               /\ currentLocale = localeByPriority
               /\ currentLocale \in configuredLocales \cup {siteConfig.i18n.defaultLocale}

C20_Witness ==
    /\ buildPc # "idle"
    /\ i18nConfigured
    /\ localeOfProps = S_de
    /\ firstRouteSegment = S_fr
    /\ lastOutDirSegment = S_build
    /\ currentLocale = S_fr

(***************************************************************************)
(* Descriptor normalisation                                                *)
(***************************************************************************)
descriptorRead == fnName = "readCategoryMetadata" /\ fnOutput # nullMetadata

\* C21: a descriptor read from a sidecar file has a position that is a
\* number, whatever the type of the position in the file, and a label that
\* is null when the label in the file is absent or falsy.
C21_DescriptorNormalized ==
    descriptorRead =>
        /\ fnOutput.position.type = "number"
        /\ ("label" \notin DOMAIN fnInput.file.data \/ isFalsy(fnInput.file.data["label"]))
               => fnOutput.label = jsonNull

(***************************************************************************)
(* The suffix of a display header whose title is taken.  The parent        *)
(* directory of each path and the suffixes are written out.                *)
(***************************************************************************)
folderSuffixOf(docPath) ==
    CASE docPath = <<"/", "d", "o", "c", "s", "/", "a", "/", "c", "a", "t", "1", "/", "x">>
             -> <<"(", "C", "a", "t", "1", ")">>
      [] docPath = <<"/", "d", "o", "c", "s", "/", "a", "/", "c", "a", "t", "2", "/", "x">>
             -> <<"(", "C", "a", "t", "2", ")">>
      [] docPath = <<"/", "x">> -> <<>>
      [] docPath = <<>> -> <<>>

counterSuffix(counter) ==
    CASE counter = 2 -> <<"(", "2", ")">>
      [] counter = 3 -> <<"(", "3", ")">>
      [] counter = 4 -> <<"(", "4", ")">>
      [] counter = 5 -> <<"(", "5", ")">>

headersBefore(j) == { displayHeader(fullContentSections[i]) : i \in 1..(j - 1) }

\* the suffix tried at a counter: the folder at 2 when there is one, the
\* counter otherwise
suffixTriedAt(docPath, counter) ==
    IF counter = 2 /\ folderSuffixOf(docPath) # <<>>
    THEN folderSuffixOf(docPath)
    ELSE counterSuffix(counter)

\* C22: a document whose title is taken gets the title followed by the
\* suffix of the first counter from 2 whose header is free; the suffix at
\* counter 2 is the capitalized parent directory in parentheses when the
\* path has one, and the counter in parentheses in every other case.
C22_CollisionSuffix ==
    \A j \in 1..Len(fullContentSections) :
        docs[j].title \in headersBefore(j) =>
            \E counter \in 2..5 :
                /\ displayHeader(fullContentSections[j])
                       = docs[j].title \o <<" ">> \o suffixTriedAt(docs[j].path, counter)
                /\ \A earlier \in 2..(counter - 1) :
                       docs[j].title \o <<" ">> \o suffixTriedAt(docs[j].path, earlier)
                           \in headersBefore(j)

\* three documents of one title in one folder: the folder, then the counter
C22_Witness ==
    /\ Len(fullContentSections) = 3
    /\ \A j \in 1..3 : docs[j].title = S_T /\ folderSuffixOf(docs[j].path) # <<>>
    /\ displayHeader(fullContentSections[2]) = S_T \o <<" ">> \o folderSuffixOf(docs[2].path)
    /\ displayHeader(fullContentSections[3]) = S_T_3

(***************************************************************************)
(* Precedence of slug, id and source file name.  What is left of each      *)
(* source path, its directory, and the sanitized titles are written out.   *)
(***************************************************************************)
pathIs(docPath, segments, extension) == docPath = sourcePath(segments, extension)

\* the source path without leading slash and docs directory, ending in '.md'
\* when it ended in '.md' or '.mdx'
sourceCandidate(docPath) ==
    CASE pathIs(docPath, <<S_docs, S_a, S_x>>, S_md) -> <<"a", "/", "x", ".", "m", "d">>
      [] pathIs(docPath, <<<<>>, S_docs, S_a, <<"X">>>>, S_mdx) -> <<"a", "/", "X", ".", "m", "d">>
      [] pathIs(docPath, <<S_docs, S_a, <<"x", "-", "2">>>>, S_md)
             -> <<"a", "/", "x", "-", "2", ".", "m", "d">>
      [] pathIs(docPath, <<S_docs, S_a, S_x>>, <<>>) -> <<"a", "/", "x">>
      [] pathIs(docPath, <<S_docs, <<>>>>, S_md) -> <<".", "m", "d">>
      [] pathIs(docPath, <<S_docs, S_x>>, S_md) -> <<"x", ".", "m", "d">>
      [] pathIs(docPath, <<S_docs, S_a, S_x>>, S_mdx) -> <<"a", "/", "x", ".", "m", "d">>
      [] pathIs(docPath, <<S_docs, S_a, S_cat1, S_x>>, S_md)
             -> <<"a", "/", "c", "a", "t", "1", "/", "x", ".", "m", "d">>

\* what stands before the final segment of the candidate
directoryOfCandidate(docPath) ==
    CASE pathIs(docPath, <<S_docs, S_a, S_x>>, S_md) -> <<"a", "/">>
      [] pathIs(docPath, <<S_docs, S_x>>, S_md) -> <<>>

\* the slug without the slashes around it
slugName(slug) ==
    CASE slug = <<"s">> -> <<"s">>
      [] slug = <<"/", "y", "/", "s", "/">> -> <<"y", "/", "s">>
      [] slug = <<"/">> -> <<>>

titleFileName(title) ==
    CASE title = <<"T">> -> <<"t", ".", "m", "d">>
      [] title = <<>> -> <<"u", "n", "t", "i", "t", "l", "e", "d", ".", "m", "d">>

hasSlug(doc) == "slug" \in DOMAIN doc.frontMatter /\ doc.frontMatter.slug # <<>>
hasId(doc) == "id" \in DOMAIN doc.frontMatter /\ doc.frontMatter.id # <<>>

namedCandidate(doc) ==
    IF hasSlug(doc)
    THEN directoryOfCandidate(doc.path) \o slugName(doc.frontMatter.slug) \o <<".", "m", "d">>
    ELSE IF hasId(doc)
    THEN directoryOfCandidate(doc.path) \o doc.frontMatter.id \o <<".", "m", "d">>
    ELSE sourceCandidate(doc.path)

isDegenerate(candidate) == candidate = <<>> \/ candidate = <<".", "m", "d">>

candidateByPrecedence(doc) ==
    IF isDegenerate(namedCandidate(doc)) THEN titleFileName(doc.title) ELSE namedCandidate(doc)

\* C23: a document whose candidate path is free is written under the path
\* whose final segment is the slug when there is one, else the id when there
\* is one, else the source file name; the sanitized title (or 'untitled')
\* stands in exactly when that candidate is empty or only '.md'.
C23_SlugThenIdThenFileName ==
    \A i \in 1..Len(writtenFiles) :
        stringToLowerCase(candidateByPrecedence(docs[i])) \notin registeredBefore(i)
            => writtenFiles[i] = candidateByPrecedence(docs[i])

\* slug and id together, id alone, and a slug that leaves only '.md'
C23_Witness ==
    /\ Len(writtenFiles) = 3
    /\ hasSlug(docs[1]) /\ hasId(docs[1]) /\ writtenFiles[1] = <<"a", "/", "s", ".", "m", "d">>
    /\ ~hasSlug(docs[2]) /\ hasId(docs[2]) /\ writtenFiles[2] = <<"a", "/", "i", ".", "m", "d">>
    /\ hasSlug(docs[3]) /\ isDegenerate(namedCandidate(docs[3]))
    /\ writtenFiles[3] = <<"t", ".", "m", "d">>

\* C24: every path a document is written under ends in '.md', does not
\* begin with '/', and does not begin with the docs directory and a '/'.
C24_OutputPathHasMdExtension ==
    \A i \in 1..Len(writtenFiles) :
        /\ endsWith(writtenFiles[i], <<".", "m", "d">>)
        /\ ~startsWith(writtenFiles[i], <<"/">>)
        /\ ~startsWith(writtenFiles[i], <<"d", "o", "c", "s", "/">>)

(***************************************************************************)
(* The list generateIndividualMarkdownFiles returns                        *)
(***************************************************************************)
untouchedFields(doc) == DOMAIN doc \ {"url", "path"}

isRewriteOf(updated, doc, assignedPath) ==
    /\ DOMAIN updated = DOMAIN doc
    /\ \A field \in untouchedFields(doc) : updated[field] = doc[field]
    /\ updated.url = S_siteUrl \o <<"/">> \o assignedPath
    /\ updated.path = <<"/">> \o assignedPath

returnedListMatchesInput ==
    /\ Len(updatedDocs) <= Len(docs)
    /\ pc = "done" => Len(updatedDocs) = Len(docs)
    /\ \A i \in 1..Len(updatedDocs) : isRewriteOf(updatedDocs[i], docs[i], writtenFiles[i])

\* C25: the input list and its documents never change; the returned list
\* has the input's length and order, and its i-th document is the i-th input
\* document with url = siteUrl + '/' + assigned path and path = '/' +
\* assigned path, every other field as it was.
C25_InputNotMutated ==
    /\ []returnedListMatchesInput
    /\ [][docs' = docs]_vars

C25_Witness ==
    /\ pc = "done"
    /\ Len(updatedDocs) = 3
    /\ \E i \in 1..3 : updatedDocs[i].path # docs[i].path /\ updatedDocs[i].url # docs[i].url
    /\ \E i \in 1..3 : docs[i].frontMatter # emptyObject

(***************************************************************************)
(* Completion order of the descriptor reads                                *)
(***************************************************************************)
categoriesOf(docList) == Range(mapKeys(groupByCategory(<<>>, docList)))

\* the table once every category read has been merged into it
fullCategoryTable ==
    [c \in categoriesOf(docs) |->
        getCategoryMetadata(files, mapGet(groupByCategory(<<>>, docs), c)[1].path, S_docs)]

\* the subdirectories of a category whose descriptor can be read
readableSubdirs(category) ==
    { sd \in subdirsToRead(mapGet(docsByCategory, category), S_docs) :
        readCategoryMetadata(files, subdirPath(mapGet(docsByCategory, category), sd, S_docs))
            # nullMetadata }

\* C26: whatever order the reads complete in, the category sort runs on the
\* table of all category descriptors, a section is built on all readable
\* subdirectory descriptors of its category, and the text written is the one
\* text the documents and descriptor files determine, its sections in the
\* sorted category order.
C26_CompletionOrderIndependent ==
    /\ pc \in {"sections", "done"} =>
           /\ pendingCategories = {}
           /\ categoryMetadataMap = fullCategoryTable
           /\ sortedCategories = sortCategories(mapKeys(docsByCategory), fullCategoryTable)
           /\ \A c \in DOMAIN sectionTasks :
                  sectionTasks[c].state = "done" =>
                      /\ sectionTasks[c].pending = {}
                      /\ DOMAIN sectionTasks[c].subdirMetadataMap = readableSubdirs(c)
    /\ pc = "done" => llmsTxt = linksTextOver(files)

\* two categories, one of them with two subdirectory reads, both readable
C26_Witness ==
    /\ pc = "done"
    /\ Len(sortedCategories) = 2
    /\ \E c \in DOMAIN sectionTasks : Cardinality(DOMAIN sectionTasks[c].subdirMetadataMap) = 2

(***************************************************************************)
(* Errors inside postBuild                                                 *)
(***************************************************************************)
awaitedSteps == {"collecting", "standard", "llmsFull", "custom"}

\* postBuild is under way or has resolved; it has not rejected
runningOrResolved == buildPc \in {"idle"} \cup awaitedSteps \cup {"returned", "done", "caught"}

\* C27: postBuild never rejects: an error of an awaited step is caught,
\* postBuild resolves, and from then on no further step runs and no further
\* file is written.
C27_ErrorsAreCaught ==
    /\ []runningOrResolved
    /\ [][/\ buildPc' = "caught" =>
                 /\ buildPc \in awaitedSteps \cup {"caught"}
                 /\ outputFiles' = outputFiles
                 /\ allDocFiles' = allDocFiles
          /\ buildPc = "caught" => buildPc' = "caught"]_vars

\* llms.txt is written, llms-full.txt fails: the custom file is never written
C27_Witness ==
    /\ buildPc = "caught"
    /\ "llms.txt" \in outputFiles
    /\ options.generateLLMsFullTxt
    /\ "llms-full.txt" \notin outputFiles
    /\ Len(options.customLLMFiles) > 0
    /\ Len(customDocs(options.customLLMFiles[1])) > 0
    /\ options.customLLMFiles[1].filename \notin outputFiles

(***************************************************************************)
(* Grouping as a partition                                                 *)
(***************************************************************************)
isLinkLine(line) == isPrefix(<<"-", " ", "[">>, line)

\* a link stands below the heading of line i before the next line that
\* closes the group of that heading
hasLinkBelow(i, closesGroup(_)) ==
    \E j \in (i + 1)..Len(llmsTxt) :
        /\ isLinkLine(llmsTxt[j])
        /\ \A k \in (i + 1)..(j - 1) : ~closesGroup(llmsTxt[k])

closesCategory(line) == isH2(line)
closesSubgroup(line) == isH2(line) \/ isH3(line)

\* C28: in the links text every document of the input has exactly one link
\* line and there is no other link line; every category heading has a link
\* below it before the next category heading, and every subgroup heading
\* has a link below it before the next heading of either kind.
C28_GroupingIsPartition ==
    pc = "done" =>
        /\ \A d \in Range(docs) : Cardinality(linkLinesOf(d)) = 1
        /\ Cardinality({i \in 1..Len(llmsTxt) : isLinkLine(llmsTxt[i])}) = Len(docs)
        /\ \A i \in 1..Len(llmsTxt) :
               /\ isH3(llmsTxt[i]) => hasLinkBelow(i, closesSubgroup)
               /\ (isH2(llmsTxt[i]) /\ ~isH3(llmsTxt[i])) => hasLinkBelow(i, closesCategory)

\* three documents of one category: two at its root, one in a subgroup
C28_Witness ==
    /\ pc = "done"
    /\ Len(docs) = 3
    /\ Cardinality({i \in 1..Len(llmsTxt) : isH2(llmsTxt[i]) /\ ~isH3(llmsTxt[i])}) = 1
    /\ Cardinality({i \in 1..Len(llmsTxt) : isH3(llmsTxt[i])}) = 1
    /\ Cardinality({i \in 1..Len(llmsTxt) : isLinkLine(llmsTxt[i])}) = 3

(***************************************************************************)
(* The files of one build                                                  *)
(***************************************************************************)
\* C29: over the standard run and the run for a custom file, no file of
\* outDir is written for two documents of different source paths.
C29_NoFileForTwoDocuments ==
    \A i, j \in 1..Len(fileWrites) :
        fileWrites[i].file = fileWrites[j].file => fileWrites[i].source = fileWrites[j].source

(***************************************************************************)
(* The links text before and after per-document files are written          *)
(***************************************************************************)
\* what generateLLMFile makes of a list of documents, but for the link
\* targets: the category headings in their order, and the category and the
\* subgroup every document is listed under
listingOf(docList) ==
    LET byCategory == groupByCategory(<<>>, docList)
        metadataMap == [c \in Range(mapKeys(byCategory)) |->
                           getCategoryMetadata(files, mapGet(byCategory, c)[1].path, S_docs)]
        sorted == sortCategories(mapKeys(byCategory), metadataMap)
    IN  [headings |-> [i \in 1..Len(sorted) |-> headingTitle(metadataMap, sorted[i])],
         placement |-> [i \in 1..Len(docList) |->
                           [category |-> extractCategoryFromPath(docList[i].path),
                            subgroup |-> extractSubdirectoryFromPath(docList[i].path, S_docs)]]]

\* C30: the documents generateIndividualMarkdownFiles returns are listed
\* by generateLLMFile under the same categories and subgroups, with the same
\* category headings in the same order, as the documents it was given.
C30_MaterializationKeepsStructure ==
    pc = "done" => listingOf(updatedDocs) = listingOf(docs)

====
